---- MODULE Spec2Model ----
(***************************************************************************)
(* Model of the price service: the in-memory storage strategy              *)
(* (src/storage_strategy.py), the in-memory cache strategy                 *)
(* (src/cache_strategy.py) and the two request handlers receive and        *)
(* find_price (src/views.py).                                              *)
(*                                                                         *)
(* Every request is run by a thread of the web server.  A thread's pc is   *)
(* its position in the handler; one action is one access to the shared     *)
(* tables, so that runs of several threads interleave between accesses.    *)
(* The timestamp of a history record is not modelled: nothing reads it.    *)
(***************************************************************************)
EXTENDS Integers, Sequences, FiniteSets, TLC

VARIABLES
    history_table,          \* dict id -> HistoryRecord
    next_history_table_id,  \* int
    latest_price_table,     \* dict (sku, retailer) -> LatestPriceRecord, in insertion order
    lowest_price_table,     \* dict sku -> LowestPriceRecord
    cache,                  \* InMemoryCacheStrategy.cache: dict sku -> APIRecord
    pc,                     \* per thread: position in the handler
    op,                     \* per thread: the operation it runs
    api_record,             \* per thread: local api_record (receive, update_price)
    history_id,             \* per thread: id read for the new history record
    id_read,                \* per thread: value read by "next_history_table_id += 1"
    current_entry,          \* per thread: local current_entry of __update_lowest_table
    lowest_price_point,     \* per thread: local lowest_price_point of __update_lowest_table
    find_sku,               \* per thread: local sku of find_price
    find_retailer,          \* per thread: local retailer of find_price_by_retailer
    result,                 \* per thread: local result of find_price
    response,               \* per thread: the HTTP response of its request
    calls,                  \* per thread: the calls its current request made, in order
    scans,                  \* per thread: number of _query_lowest_price_point calls of its request
    accepted                \* number of observations handed to update_price so far

vars == <<history_table, next_history_table_id, latest_price_table,
          lowest_price_table, cache, pc, op, api_record, history_id, id_read,
          current_entry, lowest_price_point, find_sku, find_retailer, result,
          response, calls, scans, accepted>>

storage_vars == <<history_table, next_history_table_id, latest_price_table,
                  lowest_price_table>>

----------------------------------------------------------------------------
(* Bounds and input sets *)

\* Most observations a general run accepts.
MaxObs == 4

\* Most observations a run of the documented scenarios accepts.
MaxScenarioObs == 4

\* Most observations a run of concurrent reads and writes accepts.
MaxConcObs == 2

\* Most observations a run of concurrent writes accepts.
MaxRaceObs == 3

\* Most observations a run of the preemption interleaving accepts.
MaxPreemptObs == 4

\* Most request bodies a run of requests served one at a time accepts.
MaxSeqObs == 3

\* Most observations a run of one writer and one reader accepts.
MaxReadObs == 2

\* Most observations a run with windowed observations accepts.
MaxWindowedObs == 4

\* Most request bodies a run that exercises the checks of receive accepts.
\* Most observations a run of concurrent requests for two products accepts.
MaxConcProductsObs == 2

MaxCacheCalls == 4
MaxValidateObs == 2

\* Most observations a run of concurrent writes to different products
\* accepts.
MaxDisjointObs == 4

Threads == {"t1", "t2"}

\* Python's None, for the optional fields (all strings here).
NoneStr == "None"

\* An optional record: <<>> is None, <<r>> is the record r.
None == <<>>
Some(r) == <<r>>
IsNone(o) == o = <<>>
Val(o) == o[1]

Skus == {"p", "q"}
Retailers == {"a", "b"}
Prices == {10, 12, 15}
Urls == {NoneStr, "u"}
Dates == {NoneStr, "d"}

\* The prices of the documented scenarios (A=10, B=12, A=15, B=20; 10, 8, 12).
ScenarioPrices == {8, 10, 12, 15, 20}

----------------------------------------------------------------------------
(* schema.py *)

APIRecord(sku, retailer, price, fromdate, todate, url) ==
    [sku |-> sku, retailer |-> retailer, price |-> price,
     fromdate |-> fromdate, todate |-> todate, url |-> url]

\* LatestPriceRecord(**asdict(r)), LowestPriceRecord(**asdict(r)),
\* APIRecord(**asdict(r)): the same six fields, copied.
LatestPriceRecord(r) ==
    [sku |-> r.sku, retailer |-> r.retailer, price |-> r.price,
     fromdate |-> r.fromdate, todate |-> r.todate, url |-> r.url]

\* Mutant: the lowest price record does not take the link.
LowestPriceRecord_NoLink(r) ==
    [sku |-> r.sku, retailer |-> r.retailer, price |-> r.price,
     fromdate |-> r.fromdate, todate |-> r.todate, url |-> NoneStr]

LowestPriceRecord(r) ==
    [sku |-> r.sku, retailer |-> r.retailer, price |-> r.price,
     fromdate |-> r.fromdate, todate |-> r.todate, url |-> r.url]

AsAPIRecord(r) ==
    [sku |-> r.sku, retailer |-> r.retailer, price |-> r.price,
     fromdate |-> r.fromdate, todate |-> r.todate, url |-> r.url]

HistoryRecord(id, r) ==
    [id |-> id, sku |-> r.sku, retailer |-> r.retailer, price |-> r.price,
     fromdate |-> r.fromdate, todate |-> r.todate, url |-> r.url]

\* Mutant: only fromdate makes an observation windowed.
IsWindowed_FromOnly(r) == r.fromdate # NoneStr

\* fromdate is not None or todate is not None
IsWindowed(r) == r.fromdate # NoneStr \/ r.todate # NoneStr

\* Non-windowed observations of the general runs: every seller, price and
\* url for product "p", and one observation of a second product "q".
Observations ==
    { APIRecord("p", r, p, NoneStr, NoneStr, u) :
        r \in Retailers, p \in Prices, u \in Urls }
    \cup { APIRecord("q", "a", 12, NoneStr, NoneStr, NoneStr) }

\* Observations of the runs with windowed ones: two sellers and two prices
\* of product "p", one of them also with a link, and three windowed
\* observations (from, to, both), one of them of product "q".
WindowedObservations ==
    { APIRecord("p", r, p, NoneStr, NoneStr, NoneStr) :
        r \in Retailers, p \in {10, 12} }
    \cup { APIRecord("p", "a", 12, NoneStr, NoneStr, "u"),
           APIRecord("p", "a", 10, "d", NoneStr, "u"),
           APIRecord("p", "b", 15, NoneStr, "d", NoneStr),
           APIRecord("q", "a", 12, "d", "d", NoneStr) }

\* Observations of the runs of concurrent writes to different products:
\* two prices of seller "a" of one product.
DisjointObservations(sku) ==
    { APIRecord(sku, "a", p, NoneStr, NoneStr, NoneStr) : p \in {10, 12} }

\* The product each thread writes in those runs.
ProductOf(t) == IF t = "t1" THEN "p" ELSE "q"

\* Observations of the documented scenarios: one product, two sellers.
ScenarioObservations ==
    { APIRecord("p", r, p, NoneStr, NoneStr, NoneStr) :
        r \in Retailers, p \in ScenarioPrices }

\* Observations of the runs of concurrent reads and writes: one product,
\* two prices of seller "a" and one price of seller "b".
ConcObservations ==
    { APIRecord("p", "a", p, NoneStr, NoneStr, NoneStr) : p \in {10, 12} }
    \cup { APIRecord("p", "b", 12, NoneStr, NoneStr, NoneStr) }

\* Observations of the runs of concurrent writes: one product, every price
\* of seller "a" and one price of seller "b".
RaceObservations ==
    { APIRecord("p", "a", p, NoneStr, NoneStr, NoneStr) : p \in Prices }
    \cup { APIRecord("p", "b", 12, NoneStr, NoneStr, NoneStr) }

----------------------------------------------------------------------------
(* The JSON body of a request: request.json *)

\* A JSON value: its Python type after parsing, and its value.  "absent"
\* is a key that is not in the dict.
JStr(x) == [type |-> "str", str |-> x, num |-> 0]
JInt(n) == [type |-> "int", str |-> "", num |-> n]
\* A JSON number with a fraction is a Python float (its value is kept as a
\* whole number here); true and false are Python bools, which are ints:
\* isinstance(True, int) holds and True == 1.
JFloat(n) == [type |-> "float", str |-> "", num |-> n]
JBool(n) == [type |-> "bool", str |-> "", num |-> n]
JNull == [type |-> "NoneType", str |-> "", num |-> 0]
JAbsent == [type |-> "absent", str |-> "", num |-> 0]

\* str.strip(), on the strings of the model: only " " and "" strip to "".
Strip(x) == IF x \in {"", " "} THEN "" ELSE x

\* Mutant: identifiers are kept as they were sent.
Lower_Identity(x) == x

\* str.lower(), on the strings of the model.
Lower(x) ==
    CASE x = "P" -> "p"
      [] x = "Q" -> "q"
      [] x = "A" -> "a"
      [] x = "B" -> "b"
      [] x = "U" -> "u"
      [] OTHER -> x

\* Mutant: the check of the sign of the price is dropped.
ValidationError_AllowsNegative(data) ==
    IF data.sku.type # "str" \/ Strip(data.sku.str) = ""
    THEN "Missing or wrong type for sku"
    ELSE IF data.retailer.type # "str" \/ Strip(data.retailer.str) = ""
    THEN "Missing or wrong type for retailer"
    ELSE IF data.price.type \notin {"float", "int", "bool"}
    THEN "Missing or wrong type for price"
    ELSE IF data.fromdate.type \notin {"absent", "NoneType"}
    THEN "From Date must be date/time"
    ELSE IF data.todate.type \notin {"absent", "NoneType"}
    THEN "To Date must be date/time"
    ELSE ""

\* The checks of receive, in order: the message of the first that fails,
\* "" when the body is accepted.  A parsed JSON value is never a datetime,
\* so a fromdate or todate passes only when absent or null.
ValidationError(data) ==
    IF data.sku.type # "str" \/ Strip(data.sku.str) = ""
    THEN "Missing or wrong type for sku"
    ELSE IF data.retailer.type # "str" \/ Strip(data.retailer.str) = ""
    THEN "Missing or wrong type for retailer"
    ELSE IF data.price.type \notin {"float", "int", "bool"}
    THEN "Missing or wrong type for price"
    ELSE IF data.price.num < 0
    THEN "Price cannot be negative"
    ELSE IF data.fromdate.type \notin {"absent", "NoneType"}
    THEN "From Date must be date/time"
    ELSE IF data.todate.type \notin {"absent", "NoneType"}
    THEN "To Date must be date/time"
    ELSE ""

\* data.get(key, None) of an optional string field.
GetOrNone(j) == IF j.type = "str" THEN j.str ELSE NoneStr

\* The APIRecord receive builds from an accepted body.
RequestRecord(data) ==
    APIRecord(Lower(data.sku.str), Lower(data.retailer.str), data.price.num,
              GetOrNone(data.fromdate), GetOrNone(data.todate),
              GetOrNone(data.url))

\* The body a client sends for an observation.
Body(rec) ==
    [sku |-> JStr(rec.sku), retailer |-> JStr(rec.retailer),
     price |-> JInt(rec.price),
     url |-> IF rec.url = NoneStr THEN JAbsent ELSE JStr(rec.url),
     fromdate |-> JAbsent, todate |-> JAbsent]

\* Observations of the preemption interleaving: one product, every price
\* of seller "a" and two prices of seller "b".
PreemptObservations ==
    { APIRecord("p", "a", p, NoneStr, NoneStr, NoneStr) : p \in Prices }
    \cup { APIRecord("p", "b", p, NoneStr, NoneStr, NoneStr) : p \in {12, 15} }

ConcBodies == { Body(rec) : rec \in ConcObservations }
PreemptBodies == { Body(rec) : rec \in PreemptObservations }
RaceBodies == { Body(rec) : rec \in RaceObservations }

\* Observations of the runs of requests served one at a time: two sellers
\* and two prices of product "p", one observation of product "q".
SeqObservations ==
    { APIRecord("p", r, p, NoneStr, NoneStr, NoneStr) :
        r \in Retailers, p \in {10, 12} }
    \cup { APIRecord("q", "a", 12, NoneStr, NoneStr, NoneStr) }

\* Their bodies, a body with upper-case identifiers, and a body that is
\* rejected (negative price).
SeqBodies ==
    { Body(rec) : rec \in SeqObservations }
    \cup { Body(APIRecord("P", "B", 10, NoneStr, NoneStr, "U")) }
    \cup { Body(APIRecord("p", "a", -1, NoneStr, NoneStr, NoneStr)) }

\* Bodies of the runs that exercise the checks of receive: every
\* combination of these values of sku, retailer, price, fromdate and todate.
SkuValues == {JAbsent, JInt(5), JStr(" "), JStr("p")}
RetailerValues == {JAbsent, JStr(""), JStr("a")}
PriceValues ==
    {JAbsent, JNull, JStr("10"), JBool(1), JInt(-1), JInt(0), JInt(10),
     JFloat(12)}
FromdateValues == {JAbsent, JStr("d")}
TodateValues == {JNull, JStr("d")}

ValidationBodies ==
    { [sku |-> s, retailer |-> r, price |-> p, url |-> JAbsent,
       fromdate |-> f, todate |-> t] :
        s \in SkuValues, r \in RetailerValues, p \in PriceValues,
        f \in FromdateValues, t \in TodateValues }

\* The identifiers clients ask for.
AskedSkus == {"p", "P", "q"}
AskedRetailers == {"a", "B"}

----------------------------------------------------------------------------
(* Python dicts *)

\* dict[key] = value on a dict modelled as a function.
DictSet(d, k, v) == [x \in DOMAIN d \cup {k} |-> IF x = k THEN v ELSE d[x]]

\* del dict[key]
DictDel(d, k) == [x \in DOMAIN d \ {k} |-> d[x]]

\* dict.get(key, None)
DictGet(d, k) == IF k \in DOMAIN d THEN Some(d[k]) ELSE None

EmptyDict == [x \in {} |-> 0]

\* The latest price table is a sequence of records in insertion order (a
\* Python dict keeps it, and min() in _query_lowest_price_point reads it);
\* the key of a record is (sku, retailer).
LatestIndex(t, sku, retailer) ==
    { i \in 1..Len(t) : t[i].sku = sku /\ t[i].retailer = retailer }

LatestHas(t, sku, retailer) == LatestIndex(t, sku, retailer) # {}

LatestGet(t, sku, retailer) ==
    t[CHOOSE i \in LatestIndex(t, sku, retailer) : TRUE]

\* Mutant: the record is not stored.
LatestSet_Noop(t, rec) == t

\* Mutant: the record replaces the whole table.
LatestSet_Replace(t, rec) == <<rec>>

\* Mutant: the record is added even when its key is present.
LatestSet_AlwaysAppend(t, rec) == Append(t, rec)

\* latest_price_table[sku, retailer] = record: a present key keeps its
\* place, a new key goes last.
LatestSet(t, rec) ==
    IF LatestHas(t, rec.sku, rec.retailer)
    THEN [i \in 1..Len(t) |->
            IF t[i].sku = rec.sku /\ t[i].retailer = rec.retailer
            THEN rec ELSE t[i]]
    ELSE Append(t, rec)

\* min(seq, key=lambda p: p.price): the first element of least price.
MinByPrice(s) ==
    s[CHOOSE i \in 1..Len(s) :
        /\ \A j \in 1..Len(s) : s[i].price <= s[j].price
        /\ \A j \in 1..(i - 1) : s[j].price > s[i].price]

----------------------------------------------------------------------------
(* ManualTestingStorageStrategy: the table hooks *)

\* [value for key, value in latest_price_table.items() if key[0] == sku]
price_points(sku) == SelectSeq(latest_price_table, LAMBDA r : r.sku = sku)

\* Mutant: the scan does not filter on the product (key[0] == sku dropped).
query_lowest_price_point_NoFilter(sku) ==
    IF Len(latest_price_table) = 0 THEN None
    ELSE Some(MinByPrice(latest_price_table))

\* _query_lowest_price_point(sku); min() of an empty list raises ValueError,
\* modelled as None.
query_lowest_price_point(sku) ==
    IF Len(price_points(sku)) = 0 THEN None
    ELSE Some(MinByPrice(price_points(sku)))

\* Mutant: the entry is looked up under one key for every product.
lowest_price_table_entry_Shared(sku) == DictGet(lowest_price_table, "p")

\* _lowest_price_table_entry(sku)
lowest_price_table_entry(sku) == DictGet(lowest_price_table, sku)

\* Mutant: the read recomputes the minimum of the latest price table.
lowest_price_Rescan(sku) ==
    IF IsNone(query_lowest_price_point(sku))
    THEN None
    ELSE Some(AsAPIRecord(Val(query_lowest_price_point(sku))))

\* Mutant: an unknown product gets a default record, not None.
lowest_price_Default(sku) ==
    IF sku \in DOMAIN lowest_price_table
    THEN Some(AsAPIRecord(lowest_price_table[sku]))
    ELSE Some(APIRecord(sku, NoneStr, 0, NoneStr, NoneStr, NoneStr))

\* lowest_price(sku)
lowest_price(sku) ==
    IF sku \in DOMAIN lowest_price_table
    THEN Some(AsAPIRecord(lowest_price_table[sku]))
    ELSE None

\* An HTTP response: status code and the message of its body, if one.
Response(status, message) == [status |-> status, message |-> message]
NoResponse == Response(0, "")

----------------------------------------------------------------------------
Init ==
    /\ history_table = EmptyDict
    /\ next_history_table_id = 0
    /\ latest_price_table = <<>>
    /\ lowest_price_table = EmptyDict
    /\ cache = EmptyDict
    /\ pc = [t \in Threads |-> "idle"]
    /\ op = [t \in Threads |-> "none"]
    /\ api_record = [t \in Threads |-> None]
    /\ history_id = [t \in Threads |-> -1]
    /\ id_read = [t \in Threads |-> -1]
    /\ current_entry = [t \in Threads |-> None]
    /\ lowest_price_point = [t \in Threads |-> None]
    /\ find_sku = [t \in Threads |-> NoneStr]
    /\ find_retailer = [t \in Threads |-> NoneStr]
    /\ result = [t \in Threads |-> None]
    /\ response = [t \in Threads |-> NoResponse]
    /\ calls = [t \in Threads |-> <<>>]
    /\ scans = [t \in Threads |-> 0]
    /\ accepted = 0

Goto(t, label) == pc' = [pc EXCEPT ![t] = label]
Log(t, name) == calls' = [calls EXCEPT ![t] = Append(@, name)]

\* Mutant: update_price returns to the cache invalidation, the commit is
\* skipped.
AfterUpdatePrice_SkipCommit(t) ==
    IF op[t] = "receive" THEN "invalidate" ELSE "return"

\* Where a thread goes when update_price returns: back into receive, or to
\* the caller of the storage strategy.
AfterUpdatePrice(t) == IF op[t] = "receive" THEN "end_transaction" ELSE "return"

----------------------------------------------------------------------------
(* StorageStrategy.update_price, called on the storage strategy directly *)

call_update_price(t, rec) ==
    /\ pc[t] = "idle"
    /\ Goto(t, "history_read_id")
    /\ op' = [op EXCEPT ![t] = "update_price"]
    /\ api_record' = [api_record EXCEPT ![t] = Some(rec)]
    /\ calls' = [calls EXCEPT ![t] = <<>>]
    /\ scans' = [scans EXCEPT ![t] = 0]
    /\ UNCHANGED <<storage_vars, cache, history_id, id_read, current_entry,
                   lowest_price_point, find_sku, find_retailer, result,
                   response>>

\* _update_history_table: HistoryRecord(id=self.next_history_table_id, ...)
history_read_id(t) ==
    /\ pc[t] = "history_read_id"
    /\ history_id' = [history_id EXCEPT ![t] = next_history_table_id]
    /\ Goto(t, "history_incr_read")
    /\ UNCHANGED <<accepted, storage_vars, cache, op, api_record, id_read,
                   current_entry, lowest_price_point, find_sku, find_retailer,
                   result, response, calls, scans>>

\* self.next_history_table_id += 1: the read
history_incr_read(t) ==
    /\ pc[t] = "history_incr_read"
    /\ id_read' = [id_read EXCEPT ![t] = next_history_table_id]
    /\ Goto(t, "history_incr_write")
    /\ UNCHANGED <<accepted, storage_vars, cache, op, api_record, history_id,
                   current_entry, lowest_price_point, find_sku, find_retailer,
                   result, response, calls, scans>>

\* Mutant: the id counter is written back without the increment.
history_incr_write_NoIncrement(t) ==
    /\ pc[t] = "history_incr_write"
    /\ next_history_table_id' = id_read[t]
    /\ Goto(t, "history_store")
    /\ UNCHANGED <<accepted, history_table, latest_price_table,
                   lowest_price_table, cache, op, api_record, history_id,
                   id_read, current_entry, lowest_price_point, find_sku,
                   find_retailer, result, response, calls, scans>>

\* self.next_history_table_id += 1: the write
history_incr_write(t) ==
    /\ pc[t] = "history_incr_write"
    /\ next_history_table_id' = id_read[t] + 1
    /\ Goto(t, "history_store")
    /\ UNCHANGED <<accepted, history_table, latest_price_table,
                   lowest_price_table, cache, op, api_record, history_id,
                   id_read, current_entry, lowest_price_point, find_sku,
                   find_retailer, result, response, calls, scans>>

\* self.history_table[history_record.id] = history_record
history_store(t) ==
    /\ pc[t] = "history_store"
    /\ history_table' = DictSet(history_table, history_id[t],
                                HistoryRecord(history_id[t], Val(api_record[t])))
    /\ Log(t, "history")
    /\ Goto(t, "history_schedule")
    /\ UNCHANGED <<accepted, next_history_table_id, latest_price_table,
                   lowest_price_table, cache, op, api_record, history_id,
                   id_read, current_entry, lowest_price_point, find_sku,
                   find_retailer, result, response, scans>>

\* __update_history_table, after the hook: a windowed record is posted with
\* requests.post(json.dumps(history_record), ...); json.dumps of a dataclass
\* raises TypeError, so update_price ends here with an exception.
history_schedule(t) ==
    /\ pc[t] = "history_schedule"
    /\ IF IsWindowed(Val(api_record[t]))
       THEN Goto(t, "raised")
       ELSE Goto(t, "update_latest_table")
    /\ UNCHANGED <<accepted, storage_vars, cache, op, api_record, history_id,
                   id_read, current_entry, lowest_price_point, find_sku,
                   find_retailer, result, response, calls, scans>>

\* __update_latest_table and the hook _update_latest_table
update_latest_table(t) ==
    /\ pc[t] = "update_latest_table"
    /\ IF ~IsWindowed(Val(api_record[t]))
       THEN /\ latest_price_table' =
                   LatestSet(latest_price_table,
                             LatestPriceRecord(Val(api_record[t])))
            /\ Log(t, "latest")
       ELSE UNCHANGED <<latest_price_table, calls>>
    /\ Goto(t, "lowest_read")
    /\ UNCHANGED <<accepted, history_table, next_history_table_id,
                   lowest_price_table, cache, op, api_record, history_id,
                   id_read, current_entry, lowest_price_point, find_sku,
                   find_retailer, result, response, scans>>

\* __update_lowest_table: current_entry = self._lowest_price_table_entry(sku)
lowest_read(t) ==
    /\ pc[t] = "lowest_read"
    /\ IF ~IsWindowed(Val(api_record[t]))
       THEN /\ current_entry' = [current_entry EXCEPT ![t] =
                   lowest_price_table_entry(Val(api_record[t]).sku)]
            /\ Goto(t, "lowest_branch")
       ELSE /\ UNCHANGED current_entry
            /\ Goto(t, AfterUpdatePrice(t))
    /\ UNCHANGED <<accepted, storage_vars, cache, op, api_record, history_id,
                   id_read, lowest_price_point, find_sku, find_retailer,
                   result, response, calls, scans>>

\* Mutant: the rescan is taken when another seller raises the price, not
\* the seller of the entry.
LowestBranch_RescanOtherSeller(entry, rec) ==
    IF IsNone(entry) THEN "create"
    ELSE IF rec.price <= Val(entry).price THEN "update"
    ELSE IF rec.price > Val(entry).price /\ Val(entry).retailer # rec.retailer
         THEN "rescan"
    ELSE "keep"

\* Mutant: a tie does not replace the entry (price < current_entry.price).
LowestBranch_StrictLess(entry, rec) ==
    IF IsNone(entry) THEN "create"
    ELSE IF rec.price < Val(entry).price THEN "update"
    ELSE IF rec.price > Val(entry).price /\ Val(entry).retailer = rec.retailer
         THEN "rescan"
    ELSE "keep"

\* Mutant: no entry is created for a product that has none.
LowestBranch_NoCreate(entry, rec) ==
    IF IsNone(entry) THEN "keep"
    ELSE IF rec.price <= Val(entry).price THEN "update"
    ELSE IF rec.price > Val(entry).price /\ Val(entry).retailer = rec.retailer
         THEN "rescan"
    ELSE "keep"

\* Mutant: a higher price of the entry's seller rescans nothing.
LowestBranch_NoRescan(entry, rec) ==
    IF IsNone(entry) THEN "create"
    ELSE IF rec.price <= Val(entry).price THEN "update"
    ELSE "keep"

\* Mutant: the entry's seller repeating the entry's price rescans too.
LowestBranch_RescanOnTie(entry, rec) ==
    IF IsNone(entry) THEN "create"
    ELSE IF rec.price >= Val(entry).price /\ Val(entry).retailer = rec.retailer
         THEN "rescan"
    ELSE IF rec.price <= Val(entry).price THEN "update"
    ELSE "keep"

\* Mutant: a higher price of another seller replaces the entry.
LowestBranch_AlwaysUpdate(entry, rec) ==
    IF IsNone(entry) THEN "create"
    ELSE IF rec.price <= Val(entry).price THEN "update"
    ELSE IF rec.price > Val(entry).price /\ Val(entry).retailer = rec.retailer
         THEN "rescan"
    ELSE "update"

\* Mutant: a higher price always rescans, whoever the seller is.
LowestBranch_AlwaysRescan(entry, rec) ==
    IF IsNone(entry) THEN "create"
    ELSE IF rec.price <= Val(entry).price THEN "update"
    ELSE "rescan"

\* The branch __update_lowest_table takes on current_entry:
\* "create", "update", "rescan" or "keep".
LowestBranch(entry, rec) ==
    IF IsNone(entry) THEN "create"
    ELSE IF rec.price <= Val(entry).price THEN "update"
    ELSE IF rec.price > Val(entry).price /\ Val(entry).retailer = rec.retailer
         THEN "rescan"
    ELSE "keep"

\* __update_lowest_table after reading current_entry: create or update the
\* entry from the record, or scan the latest price table, or nothing.
lowest_branch(t) ==
    /\ pc[t] = "lowest_branch"
    /\ LET rec == Val(api_record[t])
           branch == LowestBranch(current_entry[t], rec)
       IN  CASE branch \in {"create", "update"} ->
                  /\ lowest_price_table' =
                         DictSet(lowest_price_table, rec.sku,
                                 LowestPriceRecord(rec))
                  /\ Log(t, "lowest")
                  /\ Goto(t, AfterUpdatePrice(t))
                  /\ UNCHANGED <<lowest_price_point, scans>>
             [] branch = "rescan" ->
                  /\ lowest_price_point' = [lowest_price_point EXCEPT ![t] =
                         query_lowest_price_point(rec.sku)]
                  /\ scans' = [scans EXCEPT ![t] = @ + 1]
                  /\ Goto(t, "lowest_write_scan")
                  /\ UNCHANGED <<lowest_price_table, calls>>
             [] OTHER ->
                  /\ Log(t, "lowest")
                  /\ Goto(t, AfterUpdatePrice(t))
                  /\ UNCHANGED <<lowest_price_table, lowest_price_point, scans>>
    /\ UNCHANGED <<accepted, history_table, next_history_table_id,
                   latest_price_table, cache, op, api_record, history_id,
                   id_read, current_entry, find_sku, find_retailer, result,
                   response>>

\* Mutant: the scan and the write of its result are one step (the latest
\* price table is read again when the entry is written).
lowest_write_scan_Fresh(t) ==
    /\ pc[t] = "lowest_write_scan"
    /\ lowest_price_table' =
           DictSet(lowest_price_table, Val(api_record[t]).sku,
                   LowestPriceRecord(
                       Val(query_lowest_price_point(Val(api_record[t]).sku))))
    /\ Log(t, "lowest")
    /\ Goto(t, AfterUpdatePrice(t))
    /\ UNCHANGED <<accepted, history_table, next_history_table_id,
                   latest_price_table, cache, op, api_record, history_id,
                   id_read, current_entry, lowest_price_point, find_sku,
                   find_retailer, result, response, scans>>

\* Mutant: the write of the scan's result raises.
lowest_write_scan_Raises(t) ==
    /\ pc[t] = "lowest_write_scan"
    /\ Goto(t, "raised")
    /\ UNCHANGED <<accepted, storage_vars, cache, op, api_record, history_id,
                   id_read, current_entry, lowest_price_point, find_sku,
                   find_retailer, result, response, calls, scans>>

\* self._update_lowest_price_entry(LowestPriceRecord(**asdict(lowest_price_point)))
lowest_write_scan(t) ==
    /\ pc[t] = "lowest_write_scan"
    /\ IF IsNone(lowest_price_point[t])
       THEN /\ Goto(t, "raised")
            /\ UNCHANGED <<lowest_price_table, calls>>
       ELSE /\ lowest_price_table' =
                   DictSet(lowest_price_table, Val(lowest_price_point[t]).sku,
                           LowestPriceRecord(Val(lowest_price_point[t])))
            /\ Log(t, "lowest")
            /\ Goto(t, AfterUpdatePrice(t))
    /\ UNCHANGED <<accepted, history_table, next_history_table_id,
                   latest_price_table, cache, op, api_record, history_id,
                   id_read, current_entry, lowest_price_point, find_sku,
                   find_retailer, result, response, scans>>

\* The call returns (or its exception reaches the caller): the thread's
\* locals are gone.
return(t) ==
    /\ pc[t] \in {"return", "raised"}
    /\ Goto(t, "idle")
    /\ op' = [op EXCEPT ![t] = "none"]
    /\ api_record' = [api_record EXCEPT ![t] = None]
    /\ history_id' = [history_id EXCEPT ![t] = -1]
    /\ id_read' = [id_read EXCEPT ![t] = -1]
    /\ current_entry' = [current_entry EXCEPT ![t] = None]
    /\ lowest_price_point' = [lowest_price_point EXCEPT ![t] = None]
    /\ find_sku' = [find_sku EXCEPT ![t] = NoneStr]
    /\ find_retailer' = [find_retailer EXCEPT ![t] = NoneStr]
    /\ result' = [result EXCEPT ![t] = None]
    /\ response' = [response EXCEPT ![t] = NoResponse]
    /\ calls' = [calls EXCEPT ![t] = <<>>]
    /\ scans' = [scans EXCEPT ![t] = 0]
    /\ UNCHANGED <<accepted, storage_vars, cache>>

\* The steps of update_price.
update_price_step(t) ==
    \/ history_read_id(t)
    \/ history_incr_read(t)
    \/ history_incr_write(t)
    \/ history_store(t)
    \/ history_schedule(t)
    \/ update_latest_table(t)
    \/ lowest_read(t)
    \/ lowest_branch(t)
    \/ lowest_write_scan(t)

----------------------------------------------------------------------------
(* views.py: receive *)

\* PUT /receive: the checks, then the APIRecord with lower-cased sku and
\* retailer.
receive(t, data) ==
    /\ pc[t] = "idle"
    /\ op' = [op EXCEPT ![t] = "receive"]
    /\ calls' = [calls EXCEPT ![t] = <<>>]
    /\ scans' = [scans EXCEPT ![t] = 0]
    /\ IF ValidationError(data) # ""
       THEN /\ response' = [response EXCEPT ![t] =
                   Response(400, ValidationError(data))]
            /\ Goto(t, "return")
            /\ UNCHANGED api_record
       ELSE /\ api_record' = [api_record EXCEPT ![t] =
                   Some(RequestRecord(data))]
            /\ Goto(t, "start_transaction")
            /\ UNCHANGED response
    /\ UNCHANGED <<storage_vars, cache, history_id, id_read, current_entry,
                   lowest_price_point, find_sku, find_retailer, result>>

\* storage_strategy.start_transaction(): "Does nothing."
start_transaction(t) ==
    /\ pc[t] = "start_transaction"
    /\ Log(t, "start_transaction")
    /\ Goto(t, "history_read_id")
    /\ UNCHANGED <<accepted, storage_vars, cache, op, api_record, history_id,
                   id_read, current_entry, lowest_price_point, find_sku,
                   find_retailer, result, response, scans>>

\* storage_strategy.end_transaction(): "Does nothing."
end_transaction(t) ==
    /\ pc[t] = "end_transaction"
    /\ Log(t, "end_transaction")
    /\ Goto(t, "invalidate")
    /\ UNCHANGED <<accepted, storage_vars, cache, op, api_record, history_id,
                   id_read, current_entry, lowest_price_point, find_sku,
                   find_retailer, result, response, scans>>

\* Mutant: invalidate empties the cache.
cache_invalidate_Clear(c, sku) == EmptyDict

\* Mutant: invalidate removes nothing.
cache_invalidate_Noop(c, sku) == c

\* InMemoryCacheStrategy.invalidate(sku)
cache_invalidate(c, sku) == IF sku \in DOMAIN c THEN DictDel(c, sku) ELSE c

\* cache_strategy.invalidate(api_record.sku); return '', 204
invalidate(t) ==
    /\ pc[t] = "invalidate"
    /\ cache' = cache_invalidate(cache, Val(api_record[t]).sku)
    /\ Log(t, "invalidate")
    /\ response' = [response EXCEPT ![t] = Response(204, "")]
    /\ Goto(t, "return")
    /\ UNCHANGED <<accepted, storage_vars, op, api_record, history_id,
                   id_read, current_entry, lowest_price_point, find_sku,
                   find_retailer, result, scans>>

receive_step(t) ==
    \/ start_transaction(t)
    \/ update_price_step(t)
    \/ end_transaction(t)
    \/ invalidate(t)

----------------------------------------------------------------------------
(* views.py: find_price *)

\* GET /find-price/<sku>: sku = sku.lower()
find_price(t, sku) ==
    /\ pc[t] = "idle"
    /\ op' = [op EXCEPT ![t] = "find_price"]
    /\ find_sku' = [find_sku EXCEPT ![t] = Lower(sku)]
    /\ calls' = [calls EXCEPT ![t] = <<>>]
    /\ scans' = [scans EXCEPT ![t] = 0]
    /\ Goto(t, "cache_retrieve")
    /\ UNCHANGED <<accepted, storage_vars, cache, api_record, history_id,
                   id_read, current_entry, lowest_price_point, find_retailer,
                   result, response>>

\* Mutant: retrieve finds nothing.
cache_retrieve_entry_AlwaysMiss(c, sku) == None

\* InMemoryCacheStrategy.retrieve(sku)
cache_retrieve_entry(c, sku) == DictGet(c, sku)

\* Mutant: update stores the record under the other product's key.
cache_update_entry_CrossKey(c, sku, rec) ==
    DictSet(c, IF sku = "p" THEN "q" ELSE "p", rec)

\* Mutant: update stores every record under one key.
cache_update_entry_FixedKey(c, sku, rec) == DictSet(c, "p", rec)

\* InMemoryCacheStrategy.update(sku, api_record)
cache_update_entry(c, sku, rec) == DictSet(c, sku, rec)

\* result = cache_strategy.retrieve(sku); a hit is returned with 200.
cache_retrieve(t) ==
    /\ pc[t] = "cache_retrieve"
    /\ result' = [result EXCEPT ![t] = cache_retrieve_entry(cache, find_sku[t])]
    /\ Log(t, "retrieve")
    /\ IF IsNone(cache_retrieve_entry(cache, find_sku[t]))
       THEN /\ Goto(t, "storage_lowest_price")
            /\ UNCHANGED response
       ELSE /\ Goto(t, "return")
            /\ response' = [response EXCEPT ![t] = Response(200, "")]
    /\ UNCHANGED <<accepted, storage_vars, cache, op, api_record, history_id,
                   id_read, current_entry, lowest_price_point, find_sku,
                   find_retailer, scans>>

\* result = storage_strategy.lowest_price(sku); None is answered with 404.
storage_lowest_price(t) ==
    /\ pc[t] = "storage_lowest_price"
    /\ result' = [result EXCEPT ![t] = lowest_price(find_sku[t])]
    /\ Log(t, "lowest_price")
    /\ IF IsNone(lowest_price(find_sku[t]))
       THEN /\ Goto(t, "return")
            /\ response' = [response EXCEPT ![t] =
                   Response(404, "Product not found")]
       ELSE /\ Goto(t, "cache_update")
            /\ UNCHANGED response
    /\ UNCHANGED <<accepted, storage_vars, cache, op, api_record, history_id,
                   id_read, current_entry, lowest_price_point, find_sku,
                   find_retailer, scans>>

\* cache_strategy.update(sku, result); the result is returned with 200.
cache_update(t) ==
    /\ pc[t] = "cache_update"
    /\ cache' = cache_update_entry(cache, find_sku[t], Val(result[t]))
    /\ Log(t, "update")
    /\ response' = [response EXCEPT ![t] = Response(200, "")]
    /\ Goto(t, "return")
    /\ UNCHANGED <<accepted, storage_vars, op, api_record, history_id,
                   id_read, current_entry, lowest_price_point, find_sku,
                   find_retailer, result, scans>>

find_price_step(t) ==
    \/ cache_retrieve(t)
    \/ storage_lowest_price(t)
    \/ cache_update(t)

----------------------------------------------------------------------------
(* views.py: debug *)

\* The response of GET /debug while it is built: the tables read so far
\* (None for a table not read yet).
DebugResponse(history, latest, lowest, c) ==
    [status |-> 200, message |-> "",
     storage |-> [history |-> history, latest |-> latest, lowest |-> lowest],
     cache |-> c]

\* GET /debug
debug(t) ==
    /\ pc[t] = "idle"
    /\ op' = [op EXCEPT ![t] = "debug"]
    /\ calls' = [calls EXCEPT ![t] = <<>>]
    /\ scans' = [scans EXCEPT ![t] = 0]
    /\ response' = [response EXCEPT ![t] = DebugResponse(None, None, None, None)]
    /\ Goto(t, "debug_history")
    /\ UNCHANGED <<accepted, storage_vars, cache, api_record, history_id,
                   id_read, current_entry, lowest_price_point, find_sku,
                   find_retailer, result>>

\* debug_info: 'history': list(self.history_table.values())
debug_history(t) ==
    /\ pc[t] = "debug_history"
    /\ response' = [response EXCEPT ![t].storage.history = Some(history_table)]
    /\ Goto(t, "debug_latest")
    /\ UNCHANGED <<accepted, storage_vars, cache, op, api_record, history_id,
                   id_read, current_entry, lowest_price_point, find_sku,
                   find_retailer, result, calls, scans>>

\* debug_info: 'latest': list(self.latest_price_table.values())
debug_latest(t) ==
    /\ pc[t] = "debug_latest"
    /\ response' = [response EXCEPT ![t].storage.latest =
                       Some(latest_price_table)]
    /\ Goto(t, "debug_lowest")
    /\ UNCHANGED <<accepted, storage_vars, cache, op, api_record, history_id,
                   id_read, current_entry, lowest_price_point, find_sku,
                   find_retailer, result, calls, scans>>

\* debug_info: 'lowest': list(self.lowest_price_table.values())
debug_lowest(t) ==
    /\ pc[t] = "debug_lowest"
    /\ response' = [response EXCEPT ![t].storage.lowest =
                       Some(lowest_price_table)]
    /\ Goto(t, "debug_cache")
    /\ UNCHANGED <<accepted, storage_vars, cache, op, api_record, history_id,
                   id_read, current_entry, lowest_price_point, find_sku,
                   find_retailer, result, calls, scans>>

\* 'cache': cache_strategy.debug_info(); return jsonify(...)
debug_cache(t) ==
    /\ pc[t] = "debug_cache"
    /\ response' = [response EXCEPT ![t].cache = Some(cache)]
    /\ Goto(t, "return")
    /\ UNCHANGED <<accepted, storage_vars, cache, op, api_record, history_id,
                   id_read, current_entry, lowest_price_point, find_sku,
                   find_retailer, result, calls, scans>>

debug_step(t) ==
    \/ debug_history(t)
    \/ debug_latest(t)
    \/ debug_lowest(t)
    \/ debug_cache(t)

----------------------------------------------------------------------------
(* latest_for_retailer and views.py: find_price_by_retailer *)

\* ManualTestingStorageStrategy.latest_for_retailer(sku, retailer), called
\* on the storage strategy directly: record = latest_price_table[sku,
\* retailer] raises KeyError for a key that is not in the dict.
latest_for_retailer(t, sku, retailer) ==
    /\ pc[t] = "idle"
    /\ op' = [op EXCEPT ![t] = "latest_for_retailer"]
    /\ find_sku' = [find_sku EXCEPT ![t] = sku]
    /\ find_retailer' = [find_retailer EXCEPT ![t] = retailer]
    /\ calls' = [calls EXCEPT ![t] = <<>>]
    /\ scans' = [scans EXCEPT ![t] = 0]
    /\ IF LatestHas(latest_price_table, sku, retailer)
       THEN /\ result' = [result EXCEPT ![t] =
                   Some(AsAPIRecord(LatestGet(latest_price_table, sku,
                                              retailer)))]
            /\ Goto(t, "return")
       ELSE /\ UNCHANGED result
            /\ Goto(t, "raised")
    /\ UNCHANGED <<accepted, storage_vars, cache, api_record, history_id,
                   id_read, current_entry, lowest_price_point, response>>

\* GET /find-price-by-retailer/<retailer>/<sku>: sku and retailer are
\* lower-cased, then "if not result" reads the local result before any
\* assignment to it (the cache lookup is commented out): UnboundLocalError,
\* which the server answers with 500.
find_price_by_retailer(t, retailer, sku) ==
    /\ pc[t] = "idle"
    /\ op' = [op EXCEPT ![t] = "find_price_by_retailer"]
    /\ find_sku' = [find_sku EXCEPT ![t] = Lower(sku)]
    /\ find_retailer' = [find_retailer EXCEPT ![t] = Lower(retailer)]
    /\ calls' = [calls EXCEPT ![t] = <<>>]
    /\ scans' = [scans EXCEPT ![t] = 0]
    /\ response' = [response EXCEPT ![t] = Response(500, "")]
    /\ Goto(t, "raised")
    /\ UNCHANGED <<accepted, storage_vars, cache, api_record, history_id,
                   id_read, current_entry, lowest_price_point, result>>

----------------------------------------------------------------------------
(* Specifications *)

\* The run accepts one more observation, up to the bound.
Accept(bound) == accepted < bound /\ accepted' = accepted + 1

\* One observation at a time, processed by update_price on the in-memory
\* storage strategy.
Next ==
    \/ \E rec \in Observations :
          Accept(MaxObs) /\ call_update_price("t1", rec)
    \/ update_price_step("t1")
    \/ return("t1")

Spec == Init /\ [][Next]_vars

\* The same, over the observations of the documented scenarios.
NextScenario ==
    \/ \E rec \in ScenarioObservations :
          Accept(MaxScenarioObs) /\ call_update_price("t1", rec)
    \/ update_price_step("t1")
    \/ return("t1")

SpecScenario == Init /\ [][NextScenario]_vars

\* One observation at a time, windowed ones among them.
NextWindowed ==
    \/ \E rec \in WindowedObservations :
          Accept(MaxWindowedObs) /\ call_update_price("t1", rec)
    \/ update_price_step("t1")
    \/ return("t1")

SpecWindowed == Init /\ [][NextWindowed]_vars

\* Concurrent update_price calls on different products: each thread
\* processes observations of its own product, and the two interleave
\* between any two accesses to the shared tables.
NextDisjoint ==
    \E t \in Threads :
        \/ \E rec \in DisjointObservations(ProductOf(t)) :
              Accept(MaxDisjointObs) /\ call_update_price(t, rec)
        \/ update_price_step(t)
        \/ return(t)

SpecDisjoint == Init /\ [][NextDisjoint]_vars

\* Requests of two threads of the server, interleaved between any two
\* accesses to the shared tables: PUT /receive and GET /find-price.
NextConc ==
    \E t \in Threads :
        \/ \E data \in ConcBodies : Accept(MaxConcObs) /\ receive(t, data)
        \/ find_price(t, "p")
        \/ receive_step(t)
        \/ find_price_step(t)
        \/ return(t)

SpecConc == Init /\ [][NextConc]_vars

\* PUT /receive requests of two threads of the server, interleaved between
\* any two accesses to the shared tables.
NextRace ==
    \E t \in Threads :
        \/ \E data \in RaceBodies : Accept(MaxRaceObs) /\ receive(t, data)
        \/ receive_step(t)
        \/ return(t)

SpecRace == Init /\ [][NextRace]_vars

\* Requests served one at a time by one thread: PUT /receive, GET
\* /find-price, GET /find-price-by-retailer, GET /debug, and
\* latest_for_retailer called on the storage strategy.
NextSeq ==
    \/ \E data \in SeqBodies : Accept(MaxSeqObs) /\ receive("t1", data)
    \/ \E sku \in AskedSkus : find_price("t1", sku)
    \/ \E sku \in AskedSkus, retailer \in AskedRetailers :
          find_price_by_retailer("t1", retailer, sku)
    \/ \E sku \in Skus, retailer \in Retailers :
          latest_for_retailer("t1", sku, retailer)
    \/ debug("t1")
    \/ receive_step("t1")
    \/ find_price_step("t1")
    \/ debug_step("t1")
    \/ return("t1")

SpecSeq == Init /\ [][NextSeq]_vars

\* One writer and one reader: thread t1 serves PUT /receive requests while
\* thread t2 serves GET /debug and GET /find-price requests, interleaved
\* between any two accesses to the shared tables.
NextRead ==
    \/ \E data \in ConcBodies : Accept(MaxReadObs) /\ receive("t1", data)
    \/ receive_step("t1")
    \/ debug("t2")
    \/ debug_step("t2")
    \/ find_price("t2", "p")
    \/ find_price_step("t2")
    \/ \E t \in Threads : return(t)

SpecRead == Init /\ [][NextRead]_vars

\* The hooks of MirroredDatabaseStorageStrategy that update_price does not
\* reach, called on the strategy directly.
MirroredHooks == {"_update_latest_table", "_lowest_price_table_entry",
                  "_create_lowest_price_entry", "_update_lowest_price_entry",
                  "_query_lowest_price_point"}

\* Mutant: the method returns None where it raises.
raise_NotImplementedError_ReturnsNone(t) ==
    /\ Goto(t, "return")
    /\ UNCHANGED calls

\* raise NotImplementedError(): the call of thread t ends with the exception.
raise_NotImplementedError(t) ==
    /\ Goto(t, "raised")
    /\ Log(t, "NotImplementedError")

\* MirroredDatabaseStorageStrategy.lowest_price(sku)
Mirrored_lowest_price(t, sku) ==
    /\ pc[t] = "idle"
    /\ op' = [op EXCEPT ![t] = "Mirrored_lowest_price"]
    /\ find_sku' = [find_sku EXCEPT ![t] = sku]
    /\ raise_NotImplementedError(t)
    /\ UNCHANGED <<accepted, storage_vars, cache, api_record, history_id,
                   id_read, current_entry, lowest_price_point, find_retailer,
                   result, response, scans>>

\* MirroredDatabaseStorageStrategy.latest_for_retailer(sku, retailer)
Mirrored_latest_for_retailer(t, sku, retailer) ==
    /\ pc[t] = "idle"
    /\ op' = [op EXCEPT ![t] = "Mirrored_latest_for_retailer"]
    /\ find_sku' = [find_sku EXCEPT ![t] = sku]
    /\ find_retailer' = [find_retailer EXCEPT ![t] = retailer]
    /\ raise_NotImplementedError(t)
    /\ UNCHANGED <<accepted, storage_vars, cache, api_record, history_id,
                   id_read, current_entry, lowest_price_point, result,
                   response, scans>>

\* MirroredDatabaseStorageStrategy.schedule_update(api_record)
Mirrored_schedule_update(t, rec) ==
    /\ pc[t] = "idle"
    /\ op' = [op EXCEPT ![t] = "Mirrored_schedule_update"]
    /\ api_record' = [api_record EXCEPT ![t] = Some(rec)]
    /\ raise_NotImplementedError(t)
    /\ UNCHANGED <<accepted, storage_vars, cache, history_id, id_read,
                   current_entry, lowest_price_point, find_sku,
                   find_retailer, result, response, scans>>

\* StorageStrategy.update_price(api_record) on the mirrored strategy: it
\* enters __update_history_table, which builds the HistoryRecord.
Mirrored_update_price(t, rec) ==
    /\ pc[t] = "idle"
    /\ op' = [op EXCEPT ![t] = "Mirrored_update_price"]
    /\ api_record' = [api_record EXCEPT ![t] = Some(rec)]
    /\ Goto(t, "Mirrored_update_history_table")
    /\ UNCHANGED <<accepted, storage_vars, cache, history_id, id_read,
                   current_entry, lowest_price_point, find_sku,
                   find_retailer, result, response, calls, scans>>

\* self._update_history_table(history_record), the first hook update_price
\* reaches: it raises, so the latest and lowest hooks are not reached.
Mirrored_update_history_table(t) ==
    /\ pc[t] = "Mirrored_update_history_table"
    /\ raise_NotImplementedError(t)
    /\ UNCHANGED <<accepted, storage_vars, cache, op, api_record, history_id,
                   id_read, current_entry, lowest_price_point, find_sku,
                   find_retailer, result, response, scans>>

\* One of the other hooks of the mirrored strategy, called directly.
Mirrored_hook(t, hook) ==
    /\ pc[t] = "idle"
    /\ op' = [op EXCEPT ![t] = "Mirrored" \o hook]
    /\ raise_NotImplementedError(t)
    /\ UNCHANGED <<accepted, storage_vars, cache, api_record, history_id,
                   id_read, current_entry, lowest_price_point, find_sku,
                   find_retailer, result, response, scans>>

\* MirroredDatabaseStorageStrategy.debug_info(): returns a fixed message,
\* held here in the message of the thread's response.
Mirrored_debug_info(t) ==
    /\ pc[t] = "idle"
    /\ op' = [op EXCEPT ![t] = "Mirrored_debug_info"]
    /\ response' = [response EXCEPT ![t] =
           Response(0, "using real DB instead of in-memory")]
    /\ Goto(t, "return")
    /\ UNCHANGED <<accepted, storage_vars, cache, api_record, history_id,
                   id_read, current_entry, lowest_price_point, find_sku,
                   find_retailer, result, calls, scans>>

\* The mirrored database strategy, the one get_storage_strategy returns when
\* MASTER_DB and REPLICA_DB are set, called by two threads.
NextMirrored ==
    \E t \in Threads :
        \/ \E sku \in Skus : Mirrored_lowest_price(t, sku)
        \/ \E sku \in Skus, retailer \in Retailers :
              Mirrored_latest_for_retailer(t, sku, retailer)
        \/ \E rec \in WindowedObservations : Mirrored_schedule_update(t, rec)
        \/ \E rec \in WindowedObservations : Mirrored_update_price(t, rec)
        \/ Mirrored_update_history_table(t)
        \/ \E hook \in MirroredHooks : Mirrored_hook(t, hook)
        \/ Mirrored_debug_info(t)
        \/ return(t)

SpecMirrored == Init /\ [][NextMirrored]_vars

\* The bodies of the concurrent requests for two products: two prices of
\* one seller of product "p", one observation of product "q".
ConcProductsBodies ==
    { Body(APIRecord("p", "a", p, NoneStr, NoneStr, NoneStr)) : p \in {10, 12} }
    \cup { Body(APIRecord("q", "a", 12, NoneStr, NoneStr, NoneStr)) }

\* Requests of two threads of the server for two products, interleaved
\* between any two accesses to the shared tables and the cache: PUT /receive
\* and GET /find-price.
NextConcProducts ==
    \E t \in Threads :
        \/ \E data \in ConcProductsBodies :
              Accept(MaxConcProductsObs) /\ receive(t, data)
        \/ \E sku \in Skus : find_price(t, sku)
        \/ receive_step(t)
        \/ find_price_step(t)
        \/ return(t)

SpecConcProducts == Init /\ [][NextConcProducts]_vars

\* The records the cache is filled with when it is driven directly.
CacheRecords == {APIRecord("p", "a", 10, None, None, NoneStr),
                 APIRecord("p", "b", 12, None, None, "u")}

\* One call of the cache strategy as it is written to the call log.
CacheCall(name, sku, rec) == [name |-> name, sku |-> sku, rec |-> rec]

\* strategy.update(sku, api_record), called on the cache strategy itself.
InMemoryCacheStrategy_update(t, sku, rec) ==
    /\ pc[t] = "idle"
    /\ cache' = cache_update_entry(cache, sku, rec)
    /\ calls' = [calls EXCEPT ![t] =
                    Append(@, CacheCall("update", sku, Some(rec)))]
    /\ UNCHANGED <<storage_vars, pc, op, api_record, history_id, id_read,
                   current_entry, lowest_price_point, find_sku,
                   find_retailer, result, response, scans>>

\* strategy.invalidate(sku), called on the cache strategy itself.
InMemoryCacheStrategy_invalidate(t, sku) ==
    /\ pc[t] = "idle"
    /\ cache' = cache_invalidate(cache, sku)
    /\ calls' = [calls EXCEPT ![t] =
                    Append(@, CacheCall("invalidate", sku, None))]
    /\ UNCHANGED <<storage_vars, pc, op, api_record, history_id, id_read,
                   current_entry, lowest_price_point, find_sku,
                   find_retailer, result, response, scans>>

\* res = strategy.retrieve(sku), called on the cache strategy itself.
InMemoryCacheStrategy_retrieve(t, sku) ==
    /\ pc[t] = "idle"
    /\ result' = [result EXCEPT ![t] = cache_retrieve_entry(cache, sku)]
    /\ calls' = [calls EXCEPT ![t] =
                    Append(@, CacheCall("retrieve", sku, None))]
    /\ UNCHANGED <<storage_vars, cache, pc, op, api_record, history_id,
                   id_read, current_entry, lowest_price_point, find_sku,
                   find_retailer, response, scans>>

\* The cache strategy driven directly, as its unit tests drive it: any
\* sequence of update, invalidate and retrieve calls on a fresh cache.
NextCache ==
    \/ \E sku \in Skus, rec \in CacheRecords :
          Accept(MaxCacheCalls) /\ InMemoryCacheStrategy_update("t1", sku, rec)
    \/ \E sku \in Skus :
          Accept(MaxCacheCalls) /\ InMemoryCacheStrategy_invalidate("t1", sku)
    \/ \E sku \in Skus :
          Accept(MaxCacheCalls) /\ InMemoryCacheStrategy_retrieve("t1", sku)

SpecCache == Init /\ [][NextCache]_vars

\* PUT /receive with well-formed and malformed bodies, and GET /find-price,
\* served one at a time.
NextValidate ==
    \/ \E data \in ValidationBodies :
          Accept(MaxValidateObs) /\ receive("t1", data)
    \/ find_price("t1", "p")
    \/ receive_step("t1")
    \/ find_price_step("t1")
    \/ return("t1")

SpecValidate == Init /\ [][NextValidate]_vars

\* One interleaving of the above: thread t1 serves its requests alone, and
\* whenever it stands between the scan of the latest price table and the
\* write of the scan's result, thread t2 may serve one whole request before
\* t1 goes on.
NextPreempt ==
    \/ /\ pc["t2"] = "idle"
       /\ \E data \in PreemptBodies :
             Accept(MaxPreemptObs) /\ receive("t1", data)
    \/ /\ pc["t2"] \in {"idle", "return"}
       /\ \/ receive_step("t1")
          \/ return("t1")
    \/ /\ pc["t1"] = "lowest_write_scan"
       /\ \/ \E data \in PreemptBodies :
                Accept(MaxPreemptObs) /\ receive("t2", data)
          \/ receive_step("t2")
    \/ /\ pc["t1"] \in {"idle", "return"}
       /\ return("t2")

SpecPreempt == Init /\ [][NextPreempt]_vars

----------------------------------------------------------------------------
(* Vocabulary of the properties *)

\* No request is in progress.
Settled == \A t \in Threads : pc[t] = "idle"

\* Thread t has finished update_price and not yet returned.
Finished(t) == pc[t] = "return" /\ op[t] = "update_price"

\* The latest price entries of a product.
LatestOf(sku) ==
    { latest_price_table[i] : i \in { j \in 1..Len(latest_price_table) :
                                        latest_price_table[j].sku = sku } }

\* The least latest price of a product that has an entry.
MinLatestPrice(sku) ==
    CHOOSE m \in { r.price : r \in LatestOf(sku) } :
        \A r \in LatestOf(sku) : m <= r.price

\* The lowest price entry of the product is the minimum of its latest
\* price entries, held by a seller achieving it.
LowestIsMin(sku) ==
    /\ sku \in DOMAIN lowest_price_table
    /\ lowest_price_table[sku].price = MinLatestPrice(sku)
    /\ \E r \in LatestOf(sku) :
          /\ r.retailer = lowest_price_table[sku].retailer
          /\ r.price = MinLatestPrice(sku)

\* The history table as the sequence of (retailer, price) it recorded for
\* product "p", when its ids are 0..n-1.
Observed(seq) ==
    /\ DOMAIN history_table = 0..(Len(seq) - 1)
    /\ \A i \in 1..Len(seq) :
          /\ history_table[i - 1].sku = "p"
          /\ history_table[i - 1].retailer = seq[i][1]
          /\ history_table[i - 1].price = seq[i][2]

----------------------------------------------------------------------------
(* C1 *)

\* C1: after any sequence of non-windowed observations processed one at a
\* time (no update_price in progress), every product with a latest price
\* entry has a lowest price entry whose price is the minimum of the
\* product's latest prices and whose seller achieves that minimum.
C1_LowestIsMinimum ==
    (pc["t1"] \in {"idle", "return"}) =>
        \A sku \in Skus : LatestOf(sku) # {} => LowestIsMin(sku)

\* A rescan has just moved the lowest entry to the other seller, both
\* sellers having an entry and the product's latest prices differing.
C1_Witness ==
    /\ Finished("t1")
    /\ scans["t1"] = 1
    /\ Cardinality(LatestOf("p")) = 2
    /\ Val(api_record["t1"]).sku = "p"
    /\ lowest_price_table["p"].retailer # Val(api_record["t1"]).retailer
    /\ lowest_price_table["p"].price < Val(api_record["t1"]).price
    /\ LatestOf("q") # {}


----------------------------------------------------------------------------
(* C4 *)

\* Thread t is reconciling the lowest price table for an observation equal
\* (product, seller, price, link) to the one processed just before it.
IsRepeat(t) ==
    /\ pc[t] \in {"lowest_branch", "lowest_write_scan"}
    /\ history_id[t] >= 1
    /\ (history_id[t] - 1) \in DOMAIN history_table
    /\ LET prev == history_table[history_id[t] - 1]
           rec == Val(api_record[t])
       IN  /\ prev.sku = rec.sku
           /\ prev.retailer = rec.retailer
           /\ prev.price = rec.price
           /\ prev.url = rec.url
           /\ ~IsWindowed(prev) /\ ~IsWindowed(rec)

\* C4: idempotence, as claimed: while the same observation is processed a
\* second time in a row, no step changes the lowest price table, so
\* lowest_price(product) after the second call is what it was after the
\* first.
C4_Idempotent ==
    [][IsRepeat("t1") => lowest_price_table' = lowest_price_table]_vars

----------------------------------------------------------------------------
(* C5 *)

\* Thread t has finished an update_price whose observation came from the
\* seller of the lowest price entry, at a strictly higher price.
HolderRaised(t) ==
    /\ Finished(t)
    /\ ~IsNone(current_entry[t])
    /\ Val(api_record[t]).price > Val(current_entry[t]).price
    /\ Val(api_record[t]).retailer = Val(current_entry[t]).retailer

\* C5: when the seller recorded in the lowest price entry submits a
\* strictly higher price, update_price scans the product's latest price
\* entries once and the lowest price entry becomes the minimum among them
\* (the first of least price); with A=10 and B=12, A=15 yields B@12.
C5_RescanYieldsMinimum ==
    /\ HolderRaised("t1") =>
          LET sku == Val(api_record["t1"]).sku
          IN  /\ scans["t1"] = 1
              /\ LowestIsMin(sku)
              /\ lowest_price_table[sku] =
                     LowestPriceRecord(MinByPrice(price_points(sku)))
    /\ (Finished("t1") /\ Observed(<< <<"a", 10>>, <<"b", 12>>, <<"a", 15>> >>)) =>
          /\ scans["t1"] = 1
          /\ lowest_price_table["p"].retailer = "b"
          /\ lowest_price_table["p"].price = 12

\* A=10, B=12, A=15 has been processed, the second product being present.
C5_Witness ==
    /\ Finished("t1")
    /\ HolderRaised("t1")
    /\ LatestOf("q") # {}
    /\ \E r \in LatestOf("p") : r.retailer = "a" /\ r.price = 15
    /\ \E r \in LatestOf("p") : r.retailer = "b" /\ r.price = 12
    /\ Val(current_entry["t1"]).price = 10

----------------------------------------------------------------------------
(* C6 *)

\* The fourth observation of A=10, B=12, A=15, B=20 has been processed.
C6_Scenario ==
    /\ Finished("t1")
    /\ Observed(<< <<"a", 10>>, <<"b", 12>>, <<"a", 15>>, <<"b", 20>> >>)

\* C6 as claimed: after A=10, B=12, A=15, the observation B=20 leaves the
\* lowest price entry at B@12 and takes the branch that writes nothing.
C6_Original ==
    C6_Scenario =>
        /\ lowest_price_table["p"].retailer = "b"
        /\ lowest_price_table["p"].price = 12
        /\ scans["t1"] = 0

\* C6 amended: after A=10, B=12, A=15 the entry is B@12, so B=20 comes from
\* the seller of the entry at a higher price: it takes the rescan branch
\* and the lowest price entry becomes A@15.
C6_RescanToA15 ==
    C6_Scenario =>
        /\ Val(current_entry["t1"]).retailer = "b"
        /\ Val(current_entry["t1"]).price = 12
        /\ scans["t1"] = 1
        /\ lowest_price_table["p"].retailer = "a"
        /\ lowest_price_table["p"].price = 15

C6_Witness == C6_Scenario /\ lowest_price_table["p"].price = 15

----------------------------------------------------------------------------
(* C7 *)

\* Thread t has finished an update_price whose price equals the price of
\* the lowest price entry it found.
Tied(t) ==
    /\ Finished(t)
    /\ ~IsNone(current_entry[t])
    /\ Val(api_record[t]).price = Val(current_entry[t]).price

----------------------------------------------------------------------------
(* C8 *)

\* The third observation of (P,A,10), (P,B,8), (P,A,12) has been processed.
C8_Scenario ==
    /\ Finished("t1")
    /\ Observed(<< <<"a", 10>>, <<"b", 8>>, <<"a", 12>> >>)

\* C8 as claimed: the third write rescans and the final entry is B@8.
C8_Original ==
    C8_Scenario =>
        /\ scans["t1"] = 1
        /\ lowest_price_table["p"].retailer = "b"
        /\ lowest_price_table["p"].price = 8

\* C8 amended: the third write comes from a seller other than the one of
\* the entry (B@8) at a higher price, so it scans nothing and writes
\* nothing to the lowest price table; the final entry is B@8.
C8_NoRescanKeepsB8 ==
    C8_Scenario =>
        /\ scans["t1"] = 0
        /\ lowest_price_table["p"] = Val(current_entry["t1"])
        /\ lowest_price_table["p"].retailer = "b"
        /\ lowest_price_table["p"].price = 8

C8_Witness == C8_Scenario /\ lowest_price_table["p"].price = 8

----------------------------------------------------------------------------
(* C9 *)

\* Thread t has finished update_price for the first observation of its
\* product: the history holds no other record of the product.
FirstOfProduct(t) ==
    /\ Finished(t)
    /\ Cardinality({ i \in DOMAIN history_table :
                       history_table[i].sku = Val(api_record[t]).sku }) = 1

\* C9: the first observation of a product creates a latest price entry for
\* (product, seller) and a lowest price entry for the product, both equal
\* to the observation (seller, price, link).
C9_FirstObservationCreatesBoth ==
    FirstOfProduct("t1") =>
        LET rec == Val(api_record["t1"])
        IN  /\ LatestOf(rec.sku) = { LatestPriceRecord(rec) }
            /\ rec.sku \in DOMAIN lowest_price_table
            /\ lowest_price_table[rec.sku] = LowestPriceRecord(rec)

\* The first observation of product "p" arrives when the other product
\* already has its entries.
C9_Witness ==
    /\ FirstOfProduct("t1")
    /\ Val(api_record["t1"]).sku = "p"
    /\ Val(api_record["t1"]).url = "u"
    /\ LatestOf("q") # {}
    /\ "q" \in DOMAIN lowest_price_table


----------------------------------------------------------------------------
(* C2 *)

\* C2: once all requests have completed, the cache entry of a product is
\* absent or equal to the storage's current lowest_price for it.
C2_NoPermanentStaleCache ==
    Settled =>
        \A sku \in DOMAIN cache : Some(cache[sku]) = lowest_price(sku)

----------------------------------------------------------------------------
(* C3 *)

\* Both threads have completed a receive for product "p" from the same
\* seller, each having found that seller in the same lowest price entry at
\* a lower price and scanned the latest price table; the two prices differ.
TwoIncreasesOfHolder ==
    /\ \A t \in Threads :
          /\ pc[t] = "return" /\ op[t] = "receive"
          /\ ~IsNone(api_record[t]) /\ ~IsNone(current_entry[t])
          /\ Val(api_record[t]).sku = "p"
          /\ Val(api_record[t]).retailer = Val(current_entry[t]).retailer
          /\ Val(api_record[t]).price > Val(current_entry[t]).price
          /\ scans[t] = 1
    /\ current_entry["t1"] = current_entry["t2"]
    /\ Val(api_record["t1"]).price # Val(api_record["t2"]).price

\* One of the two new prices is below the latest price of every other
\* seller of the product.
BelowOtherSellers ==
    \E t \in Threads :
        \A r \in LatestOf("p") :
            r.retailer # Val(api_record[t]).retailer =>
                Val(api_record[t]).price < r.price

\* C3: with no serialization of the two calls (start_transaction and
\* end_transaction do nothing), in the interleaving where t1 is preempted
\* between its scan and its write while t2 serves a whole request, two
\* different price increases from the seller of the lowest price entry, one
\* of them below every other seller's price, end with a lowest price entry
\* whose price is t1's scan result and differs from the minimum of the
\* product's latest prices.
C3_PreemptedRescanLeavesStaleMinimum ==
    (TwoIncreasesOfHolder /\ BelowOtherSellers) =>
        /\ lowest_price_table["p"] =
               LowestPriceRecord(Val(lowest_price_point["t1"]))
        /\ lowest_price_table["p"].price # MinLatestPrice("p")

\* Seller "a" held the entry at 10 with seller "b" at 15; the increases
\* a=12 and a=15 raced and the entry ended at a@12 although the latest
\* prices are a=15 and b=15.
C3_Witness ==
    /\ TwoIncreasesOfHolder
    /\ Val(current_entry["t1"]).retailer = "a"
    /\ Val(current_entry["t1"]).price = 10
    /\ Val(api_record["t1"]).price = 12
    /\ Val(api_record["t2"]).price = 15
    /\ \E r \in LatestOf("p") : r.retailer = "b" /\ r.price = 15
    /\ lowest_price_table["p"].price = 12
    /\ MinLatestPrice("p") = 15

----------------------------------------------------------------------------
(* C10 *)

IsPrefix(a, b) ==
    /\ Len(a) <= Len(b)
    /\ \A i \in 1..Len(a) : a[i] = b[i]

ReceiveOrder ==
    << "start_transaction", "history", "latest", "lowest", "end_transaction",
       "invalidate" >>

\* C10: the calls of an accepted /receive request are, in this order and
\* once each: start_transaction, history append, latest price upsert, lowest
\* price reconcile, end_transaction, cache invalidate.  At every moment the
\* calls made so far are a prefix of that sequence, and the request that
\* has answered 204 has made them all.
C10_ReceiveStepOrder ==
    \A t \in Threads :
        (op[t] = "receive" /\ ~IsNone(api_record[t])) =>
            /\ IsPrefix(calls[t], ReceiveOrder)
            /\ pc[t] = "return" =>
                  /\ calls[t] = ReceiveOrder
                  /\ response[t].status = 204
            /\ response[t].status = 204 => calls[t] = ReceiveOrder

\* A request has answered 204 while the other thread is in the middle of
\* its own update.
C10_Witness ==
    /\ pc["t1"] = "return" /\ op["t1"] = "receive"
    /\ response["t1"].status = 204
    /\ calls["t1"] = ReceiveOrder
    /\ pc["t2"] = "lowest_read" /\ op["t2"] = "receive"

----------------------------------------------------------------------------
(* C11 *)

\* Thread t performs cache_strategy.invalidate(sku) in this step, the last
\* call of a receive.
Invalidates(t, sku) ==
    /\ pc[t] = "invalidate" /\ pc'[t] = "return"
    /\ Val(api_record[t]).sku = sku

\* Thread t performs cache_strategy.update(sku, ...) in this step.
Updates(t, sku) ==
    /\ pc[t] = "cache_update" /\ pc'[t] = "return"
    /\ find_sku[t] = sku

\* Thread t performs cache_strategy.retrieve(sku) in this step.
Retrieves(t, sku) ==
    /\ pc[t] = "cache_retrieve" /\ pc'[t] # "cache_retrieve"
    /\ find_sku[t] = sku

\* C11: the invalidation that completes a /receive for a product leaves
\* the cache without an entry for it; an absent entry stays absent in every
\* step that is not a cache.update for the product; and a find_price whose
\* retrieve finds the entry absent reads the storage next.
C11_AbsentUntilNextUpdate ==
    [][\A sku \in Skus :
          /\ (\E t \in Threads : Invalidates(t, sku)) =>
                 sku \notin DOMAIN cache'
          /\ (sku \notin DOMAIN cache /\ sku \in DOMAIN cache') =>
                 \E t \in Threads : Updates(t, sku)
          /\ \A t \in Threads :
                 (Retrieves(t, sku) /\ sku \notin DOMAIN cache) =>
                     /\ pc'[t] = "storage_lowest_price"
                     /\ IsNone(result'[t])]_vars

\* A second /receive for "p" has completed and removed the entry a reader
\* had cached, and the next find_price has found the cache empty.
C11_Witness ==
    /\ pc["t1"] = "return" /\ op["t1"] = "receive"
    /\ response["t1"].status = 204
    /\ Cardinality(DOMAIN history_table) = 2
    /\ "p" \notin DOMAIN cache
    /\ op["t2"] = "find_price" /\ pc["t2"] = "storage_lowest_price"
    /\ calls["t2"] = <<"retrieve">>

----------------------------------------------------------------------------
(* C12 *)

\* Thread t has answered a find_price request.
Answered(t) == op[t] = "find_price" /\ pc[t] = "return"

\* C12: with requests served one at a time, every find_price(sku) answers
\* what the storage's lowest_price(sku) returns in that state, from the
\* cache or not: 200 with that record, or 404 when it is None.
C12_CacheIsTransparent ==
    Answered("t1") =>
        /\ result["t1"] = lowest_price(find_sku["t1"])
        /\ response["t1"].status =
               IF IsNone(lowest_price(find_sku["t1"])) THEN 404 ELSE 200

\* A find_price for "P" has been answered from the cache after three
\* observations of "p", the last of which lowered the lowest price.
C12_Witness ==
    /\ Answered("t1")
    /\ find_sku["t1"] = "p"
    /\ calls["t1"] = <<"retrieve">>
    /\ Cardinality(DOMAIN history_table) = 3
    /\ history_table[1].price = 12
    /\ history_table[2].price = 10
    /\ Val(result["t1"]).price = 10

----------------------------------------------------------------------------
(* C13 *)

\* The three tables h (history), la (latest prices) and lo (lowest prices)
\* show every observation of h with all its effects: its key has a latest
\* price entry, which carries the price and link of the newest observation
\* of the key, and its product has a lowest price entry at the minimum of
\* the product's latest prices, held by a seller at that price.
AllEffectsApplied(h, la, lo) ==
    \A i \in DOMAIN h :
        /\ LatestHas(la, h[i].sku, h[i].retailer)
        /\ (\A j \in DOMAIN h :
               (h[j].sku = h[i].sku /\ h[j].retailer = h[i].retailer) => j <= i)
           => /\ LatestGet(la, h[i].sku, h[i].retailer).price = h[i].price
              /\ LatestGet(la, h[i].sku, h[i].retailer).url = h[i].url
        /\ h[i].sku \in DOMAIN lo
        /\ \A k \in 1..Len(la) :
               la[k].sku = h[i].sku => lo[h[i].sku].price <= la[k].price
        /\ \E k \in 1..Len(la) :
               /\ la[k].sku = h[i].sku
               /\ la[k].retailer = lo[h[i].sku].retailer
               /\ la[k].price = lo[h[i].sku].price

\* C13: a GET /debug served while another thread serves a /receive answers
\* with tables in which every observation shows all three of its effects or
\* none: the history append, the latest price upsert and the lowest price
\* reconcile become visible together.
C13_ReadersSeeWholeObservations ==
    (op["t2"] = "debug" /\ pc["t2"] = "return") =>
        AllEffectsApplied(Val(response["t2"].storage.history),
                          Val(response["t2"].storage.latest),
                          Val(response["t2"].storage.lowest))

----------------------------------------------------------------------------
(* C14 *)

\* update_price of thread t has ended with an exception.
Raised(t) == pc[t] = "raised" /\ op[t] = "update_price"

\* The history records of the observations that are not windowed: those
\* that have effects on the latest and lowest price tables.
NonWindowed(h) == [i \in { j \in DOMAIN h : ~IsWindowed(h[j]) } |-> h[i]]

\* C14: when update_price has failed part-way (the scheduling call after
\* the history write of a windowed observation raises), no partial state is
\* left: all table effects of the observation are present.  Its history
\* record is in the history table, which is all a windowed observation
\* writes, and the three tables show every observation with all its
\* effects.
C14_FailureLeavesNoPartialState ==
    Raised("t1") =>
        /\ history_id["t1"] \in DOMAIN history_table
        /\ history_table[history_id["t1"]] =
               HistoryRecord(history_id["t1"], Val(api_record["t1"]))
        /\ AllEffectsApplied(NonWindowed(history_table), latest_price_table,
                             lowest_price_table)

\* The call for a windowed observation of seller "a" has raised after two
\* observations of the product had set its entries, the lowest at b@10.
C14_Witness ==
    /\ Raised("t1")
    /\ Val(api_record["t1"]).sku = "p"
    /\ Val(api_record["t1"]).fromdate = "d"
    /\ history_id["t1"] = 2
    /\ Cardinality(LatestOf("p")) = 2
    /\ lowest_price_table["p"].retailer = "b"
    /\ lowest_price_table["p"].price = 10

----------------------------------------------------------------------------
(* C16 *)

\* C16: with observations processed one at a time the history table is
\* append-only with unique, strictly increasing ids.  At rest it holds one
\* entry per processed observation, windowed or not; a step never changes
\* or removes an entry; a step adds at most one entry, under an id greater
\* than every id present, and the entry is the observation of the call.
C16_HistoryAppendOnly ==
    /\ [](pc["t1"] = "idle" =>
            /\ Cardinality(DOMAIN history_table) = accepted
            /\ DOMAIN history_table = 0..(accepted - 1))
    /\ [][/\ \A i \in DOMAIN history_table :
                /\ i \in DOMAIN history_table'
                /\ history_table'[i] = history_table[i]
          /\ \A i \in DOMAIN history_table' \ DOMAIN history_table :
                /\ \A j \in DOMAIN history_table : j < i
                /\ DOMAIN history_table' = DOMAIN history_table \cup {i}
                /\ history_table'[i] = HistoryRecord(i, Val(api_record["t1"]))
         ]_vars

\* Four observations have been processed, the second and the last windowed,
\* and the table holds the ids 0 to 3.
C16_Witness ==
    /\ pc["t1"] = "idle"
    /\ DOMAIN history_table = 0..3
    /\ history_table[1].todate = "d"
    /\ history_table[2].fromdate = NoneStr /\ history_table[2].todate = NoneStr
    /\ history_table[3].fromdate = "d"

----------------------------------------------------------------------------
(* C17 *)

\* The latest price entry of a key in table tab, or None.
EntryOf(tab, sku, retailer) ==
    IF LatestHas(tab, sku, retailer)
    THEN Some(LatestGet(tab, sku, retailer))
    ELSE None

\* The ids of the history records of a key that carry no window.
PlainIds(sku, retailer) ==
    { i \in DOMAIN history_table :
        /\ history_table[i].sku = sku
        /\ history_table[i].retailer = retailer
        /\ history_table[i].fromdate = NoneStr
        /\ history_table[i].todate = NoneStr }

\* The greatest element of a non-empty set of numbers.
Newest(ids) == CHOOSE i \in ids : \A j \in ids : j <= i

\* C17: with observations processed one at a time the latest price table
\* has at most one entry per (product, seller); once a call has ended, the
\* entry of a key is the price and link of the key's most recent
\* observation without a window (no entry when there is none); and a step
\* changes the entry of no key but the one of the observation in progress.
C17_LatestIsMostRecent ==
    /\ [](\A sku \in Skus, retailer \in Retailers :
            /\ Cardinality(LatestIndex(latest_price_table, sku, retailer)) <= 1
            /\ pc["t1"] \in {"idle", "return", "raised"} =>
                  IF PlainIds(sku, retailer) = {}
                  THEN ~LatestHas(latest_price_table, sku, retailer)
                  ELSE /\ LatestHas(latest_price_table, sku, retailer)
                       /\ LatestGet(latest_price_table, sku, retailer).price =
                              history_table[Newest(PlainIds(sku, retailer))].price
                       /\ LatestGet(latest_price_table, sku, retailer).url =
                              history_table[Newest(PlainIds(sku, retailer))].url)
    /\ [][\A sku \in Skus, retailer \in Retailers :
             EntryOf(latest_price_table', sku, retailer) #
                 EntryOf(latest_price_table, sku, retailer)
             => /\ ~IsNone(api_record["t1"])
                /\ Val(api_record["t1"]).sku = sku
                /\ Val(api_record["t1"]).retailer = retailer
         ]_vars

\* Seller "a" was observed at 10 and then at 12 with a link, seller "b" at
\* 12, and last a windowed observation of "a" at 10 was processed: the
\* entry of "a" is still 12 with the link.
C17_Witness ==
    /\ pc["t1"] = "raised"
    /\ DOMAIN history_table = 0..3
    /\ history_table[0].retailer = "a" /\ history_table[0].price = 10
    /\ history_table[1].retailer = "a" /\ history_table[1].url = "u"
    /\ history_table[2].retailer = "b"
    /\ history_table[3].retailer = "a" /\ history_table[3].fromdate = "d"
    /\ PlainIds("p", "a") = {0, 1}
    /\ LatestHas(latest_price_table, "p", "a")
    /\ LatestHas(latest_price_table, "p", "b")
    /\ LatestGet(latest_price_table, "p", "a").price = 12
    /\ LatestGet(latest_price_table, "p", "a").url = "u"

----------------------------------------------------------------------------
(* C18 *)

\* Thread t is processing, or has just processed, an observation with an
\* effective-from or an effective-to date.
ProcessesWindowed(t) ==
    /\ op[t] = "update_price"
    /\ ~IsNone(api_record[t])
    /\ \/ Val(api_record[t]).fromdate # NoneStr
       \/ Val(api_record[t]).todate # NoneStr

\* C18: a windowed observation is appended to the history table, and no
\* step of its processing changes the latest price table or the lowest
\* price table, also when it is the first observation of its product.
C18_WindowedOnlyInHistory ==
    /\ []((ProcessesWindowed("t1") /\ pc["t1"] \in {"return", "raised"}) =>
            /\ history_id["t1"] \in DOMAIN history_table
            /\ history_table[history_id["t1"]] =
                   HistoryRecord(history_id["t1"], Val(api_record["t1"])))
    /\ [][ProcessesWindowed("t1") =>
             /\ latest_price_table' = latest_price_table
             /\ lowest_price_table' = lowest_price_table]_vars

\* A windowed observation of product "q", the first of that product, has
\* been processed after observations of "p": "q" has a history record and
\* no entry in the other two tables.
C18_Witness ==
    /\ ProcessesWindowed("t1")
    /\ pc["t1"] = "raised"
    /\ Val(api_record["t1"]).sku = "q"
    /\ { i \in DOMAIN history_table : history_table[i].sku = "q" } =
           { history_id["t1"] }
    /\ LatestOf("q") = {}
    /\ "q" \notin DOMAIN lowest_price_table
    /\ LatestOf("p") # {}
    /\ "p" \in DOMAIN lowest_price_table

----------------------------------------------------------------------------
(* C15 *)

\* The lowest price entry update_price leaves for record rec when it runs
\* alone on a product whose entry was cur and whose latest price entries,
\* after the upsert of rec, are points.
LowestAlone(cur, points, rec) ==
    IF IsNone(cur) \/ rec.price <= Val(cur).price
    THEN LowestPriceRecord(rec)
    ELSE IF Val(cur).retailer = rec.retailer
         THEN LowestPriceRecord(MinByPrice(points))
         ELSE Val(cur)

\* C15: concurrent update_price calls on different products do not
\* interfere, under every interleaving.  What a call has read of its
\* product (the lowest price entry, the scan of the latest prices) is still
\* what the tables hold when it writes; when it ends, the latest price
\* entry of its key is the observation and the lowest price entry of its
\* product is the one the call alone would have left, the minimum of the
\* product's latest prices; and no step of a call changes an entry of
\* another product.
C15_DifferentProductsDoNotInterfere ==
    /\ [](\A t \in Threads :
            LET sku == ProductOf(t)
            IN  /\ pc[t] \in {"lowest_branch", "lowest_write_scan"} =>
                       current_entry[t] = DictGet(lowest_price_table, sku)
                /\ pc[t] = "lowest_write_scan" =>
                       lowest_price_point[t] =
                           Some(MinByPrice(price_points(sku)))
                /\ Finished(t) =>
                       /\ EntryOf(latest_price_table, sku,
                                  Val(api_record[t]).retailer) =
                              Some(LatestPriceRecord(Val(api_record[t])))
                       /\ DictGet(lowest_price_table, sku) =
                              Some(LowestAlone(current_entry[t],
                                               price_points(sku),
                                               Val(api_record[t])))
                       /\ LowestIsMin(sku))
    /\ [][\A t \in Threads :
             pc'[t] # pc[t] =>
                 \A sku \in Skus \ {ProductOf(t)} :
                     /\ price_points(sku)' = price_points(sku)
                     /\ DictGet(lowest_price_table', sku) =
                            DictGet(lowest_price_table, sku)
         ]_vars

\* Seller "a" of product "p" has raised its price from 10 to 12 and the
\* rescan has set the entry of "p" to 12; the other thread, having read
\* the entry of "q" at 10, is about to write it for a second observation.
C15_Witness ==
    /\ Finished("t1")
    /\ scans["t1"] = 1
    /\ lowest_price_table["p"].price = 12
    /\ pc["t2"] = "lowest_branch"
    /\ ~IsNone(current_entry["t2"])
    /\ Val(current_entry["t2"]).price = 10
    /\ Val(api_record["t2"]).price = 12

----------------------------------------------------------------------------
(* C19 *)

\* Thread t serves a find_price for a product that has no lowest price
\* entry.
FindsUnknown(t) ==
    /\ op[t] = "find_price"
    /\ find_sku[t] \notin DOMAIN lowest_price_table

\* C19: find_price for a product without a lowest price entry gets None
\* from the storage and answers 404 'Product not found'; it never ends with
\* an exception, and none of its steps changes the tables or the cache.
C19_UnknownProductIsAbsent ==
    /\ []((FindsUnknown("t1") /\ pc["t1"] = "return") =>
            /\ IsNone(result["t1"])
            /\ response["t1"] = Response(404, "Product not found"))
    /\ [](op["t1"] = "find_price" => pc["t1"] # "raised")
    /\ [][FindsUnknown("t1") =>
             /\ history_table' = history_table
             /\ next_history_table_id' = next_history_table_id
             /\ latest_price_table' = latest_price_table
             /\ lowest_price_table' = lowest_price_table
             /\ cache' = cache]_vars

\* GET /find-price/q has been answered 404 from the storage while product
\* "p" has its entries and a cached answer.
C19_Witness ==
    /\ FindsUnknown("t1")
    /\ pc["t1"] = "return"
    /\ find_sku["t1"] = "q"
    /\ calls["t1"] = <<"retrieve", "lowest_price">>
    /\ response["t1"].status = 404
    /\ "p" \in DOMAIN lowest_price_table
    /\ "p" \in DOMAIN cache

----------------------------------------------------------------------------
(* C20 *)

\* What latest_for_seller is to return for the pair thread t asked for: the
\* latest price entry as an APIRecord, or None.
LatestAsked(t) ==
    IF LatestHas(latest_price_table, find_sku[t], find_retailer[t])
    THEN Some(AsAPIRecord(LatestGet(latest_price_table, find_sku[t],
                                    find_retailer[t])))
    ELSE None

\* C20: latest_for_retailer(sku, retailer) returns the latest price entry
\* of the pair when there is one and None when there is none, without an
\* exception; GET /find-price-by-retailer answers 200 when there is one and
\* 404 'Combination not found' when there is none.
C20_LatestForSellerOrAbsent ==
    /\ (op["t1"] = "latest_for_retailer" /\ pc["t1"] \in {"return", "raised"})
       => /\ pc["t1"] = "return"
          /\ result["t1"] = LatestAsked("t1")
    /\ (op["t1"] = "find_price_by_retailer"
            /\ pc["t1"] \in {"return", "raised"})
       => /\ pc["t1"] = "return"
          /\ IF IsNone(LatestAsked("t1"))
             THEN response["t1"] = Response(404, "Combination not found")
             ELSE response["t1"].status = 200

----------------------------------------------------------------------------
(* C21 *)

\* The body has a sku or a retailer that is missing, not a string or blank,
\* or a price that is missing, not a number or negative.  A number is a
\* Python int or float, which a JSON true or false also is.
Malformed(data) ==
    \/ data.sku.type # "str"
    \/ data.sku.str \in {"", " "}
    \/ data.retailer.type # "str"
    \/ data.retailer.str \in {"", " "}
    \/ data.price.type \notin {"int", "float", "bool"}
    \/ data.price.num < 0

\* The body carries a fromdate or a todate, which receive checks next.
HasDates(data) ==
    \/ data.fromdate.type \notin {"absent", "NoneType"}
    \/ data.todate.type \notin {"absent", "NoneType"}

----------------------------------------------------------------------------
(* C22 *)

\* The two casings of each identifier of the runs, lower case first.
Casings == { <<"p", "P">>, <<"q", "Q">>, <<"a", "A">>, <<"b", "B">> }

\* The lower-case form of an identifier, in either casing.
Canonical(x) == (CHOOSE c \in Casings : x \in {c[1], c[2]})[1]

\* Every key of the tables and of the cache is in lower case.
KeysInLowerCase ==
    /\ \A i \in 1..Len(latest_price_table) :
          /\ latest_price_table[i].sku \in Skus
          /\ latest_price_table[i].retailer \in Retailers
    /\ \A i \in DOMAIN history_table :
          /\ history_table[i].sku \in Skus
          /\ history_table[i].retailer \in Retailers
    /\ DOMAIN lowest_price_table \subseteq Skus
    /\ \A sku \in DOMAIN lowest_price_table :
          /\ lowest_price_table[sku].sku = sku
          /\ lowest_price_table[sku].retailer \in Retailers
    /\ DOMAIN cache \subseteq Skus
    /\ \A sku \in DOMAIN cache : cache[sku].sku = sku

\* C22: /receive lower-cases sku and retailer before its first storage or
\* cache call and /find-price lower-cases sku before its lookups, so the
\* two casings of an identifier address the same entries: the tables and
\* the cache have lower-case keys only, and find_price answers the lowest
\* price of the lower-cased sku whatever the casing it was asked with.
C22_CaseNormalized ==
    /\ []KeysInLowerCase
    /\ [](Answered("t1") =>
            /\ find_sku["t1"] \in Skus
            /\ result["t1"] = lowest_price(find_sku["t1"]))
    /\ [][/\ \A sku \in AskedSkus :
                find_price("t1", sku) =>
                    /\ find_sku'["t1"] = Canonical(sku)
                    /\ calls'["t1"] = <<>>
          /\ \A data \in SeqBodies :
                (receive("t1", data) /\ pc'["t1"] = "start_transaction") =>
                    /\ Val(api_record'["t1"]).sku = Canonical(data.sku.str)
                    /\ Val(api_record'["t1"]).retailer =
                           Canonical(data.retailer.str)
                    /\ calls'["t1"] = <<>>
         ]_vars

\* The observation sent as ("P", "B") with link "U" is the lowest price of
\* "p", and a find_price has read it from the storage under seller "b" and
\* put it in the cache under "p".
C22_Witness ==
    /\ Answered("t1")
    /\ calls["t1"] = <<"retrieve", "lowest_price", "update">>
    /\ Val(result["t1"]).sku = "p"
    /\ Val(result["t1"]).retailer = "b"
    /\ Val(result["t1"]).url = "U"
    /\ "p" \in DOMAIN cache
    /\ cache["p"].retailer = "b"

----------------------------------------------------------------------------
(* C23 *)

\* C23: no step of any request, under any interleaving of two threads,
\* removes a latest price entry or a lowest price entry: a (product,
\* seller) key that has a latest price entry has one after the step, a
\* product that has a lowest price entry has one after the step, and
\* lowest_price of the product does not go back to None.
C23_EntriesNeverDeleted ==
    [][/\ \A sku \in Skus, retailer \in Retailers :
             LatestHas(latest_price_table, sku, retailer) =>
                 LatestHas(latest_price_table', sku, retailer)
       /\ \A sku \in DOMAIN lowest_price_table :
             /\ sku \in DOMAIN lowest_price_table'
             /\ ~IsNone(lowest_price(sku)')
      ]_vars

\* Both sellers of "p" have a latest price entry, the second written over
\* the first seller's lowest price entry, and a find_price has since been
\* answered from the storage.
C23_Witness ==
    /\ Cardinality(LatestOf("p")) = 2
    /\ "p" \in DOMAIN lowest_price_table
    /\ lowest_price_table["p"].retailer = "b"
    /\ pc["t1"] = "return" /\ op["t1"] = "receive"
    /\ ~IsNone(current_entry["t1"])
    /\ Val(current_entry["t1"]).retailer = "a"
    /\ pc["t2"] = "return" /\ op["t2"] = "find_price"
    /\ response["t2"].status = 200
    /\ Val(result["t2"]).retailer = "b"

----------------------------------------------------------------------------
(* C24 *)

\* Thread t leaves position label of find_price in this step.
Leaves(t, label) == pc[t] = label /\ pc'[t] # label

\* The lowest price entry of a product as the APIRecord the storage returns
\* for it, or None.
StoredLowest(sku) ==
    IF sku \in DOMAIN lowest_price_table
    THEN Some(AsAPIRecord(lowest_price_table[sku]))
    ELSE None

\* C24: find_price follows the read protocol.  When cache.retrieve(sku)
\* returns an entry, that entry is the result, answered with 200, and the
\* storage is not called.  On a miss lowest_price(sku) is called; when it
\* returns None the answer is 404 and the cache is not updated; when it
\* returns an entry, cache.update(sku, entry) stores exactly that entry
\* under sku before it is answered with 200.
C24_ReadProtocol ==
    /\ [](\A t \in Threads :
            (op[t] = "find_price" /\ pc[t] = "return") =>
                \/ /\ calls[t] = <<"retrieve">>
                   /\ ~IsNone(result[t]) /\ response[t].status = 200
                \/ /\ calls[t] = <<"retrieve", "lowest_price">>
                   /\ IsNone(result[t]) /\ response[t].status = 404
                \/ /\ calls[t] = <<"retrieve", "lowest_price", "update">>
                   /\ ~IsNone(result[t]) /\ response[t].status = 200)
    /\ [][\A t \in Threads :
             /\ Leaves(t, "cache_retrieve") =>
                   IF find_sku[t] \in DOMAIN cache
                   THEN /\ result'[t] = Some(cache[find_sku[t]])
                        /\ pc'[t] = "return"
                   ELSE /\ IsNone(result'[t])
                        /\ pc'[t] = "storage_lowest_price"
             /\ Leaves(t, "storage_lowest_price") =>
                   /\ result'[t] = StoredLowest(find_sku[t])
                   /\ cache' = cache
                   /\ pc'[t] = IF IsNone(StoredLowest(find_sku[t]))
                               THEN "return" ELSE "cache_update"
             /\ Leaves(t, "cache_update") =>
                   /\ find_sku[t] \in DOMAIN cache'
                   /\ cache'[find_sku[t]] = Val(result[t])
                   /\ result'[t] = result[t]
                   /\ pc'[t] = "return"
         ]_vars

\* A find_price has been answered from the cache, which a read of the
\* other thread had filled, while that thread is serving a /receive that
\* has already changed the lowest price entry.
C24_Witness ==
    /\ op["t2"] = "find_price" /\ pc["t2"] = "return"
    /\ calls["t2"] = <<"retrieve">>
    /\ response["t2"].status = 200
    /\ op["t1"] = "receive" /\ pc["t1"] = "end_transaction"
    /\ result["t2"] # StoredLowest("p")

----------------------------------------------------------------------------
(* C25 *)

\* The positions in a call log of the update and invalidate calls on sku.
WritesOf(log, sku) ==
    {i \in 1..Len(log) :
        log[i].sku = sku /\ log[i].name \in {"update", "invalidate"}}

\* What a per-sku map holds for sku after the calls of log: the record of
\* the last update(sku, r) unless an invalidate(sku) came after it.
MapAfter(log, sku) ==
    IF WritesOf(log, sku) = {}
    THEN None
    ELSE LET last == CHOOSE i \in WritesOf(log, sku) :
                        \A j \in WritesOf(log, sku) : j <= i
         IN  log[last].rec

\* C25: the in-memory cache behaves as a per-sku map.  After any sequence
\* of update and invalidate calls retrieve(s) returns the record of the
\* most recent update(s, r) not followed by invalidate(s), and None
\* otherwise, also on a fresh cache; an update or invalidate of another sku
\* does not change what is held for s, and retrieve changes nothing.
C25_CacheIsPerSkuMap ==
    /\ [](\A n \in 1..Len(calls["t1"]) :
            (n = Len(calls["t1"]) /\ calls["t1"][n].name = "retrieve") =>
                result["t1"] = MapAfter(calls["t1"], calls["t1"][n].sku))
    /\ [][LET log == calls'["t1"]
              call == log[Len(log)]
          IN  Len(log) > Len(calls["t1"]) =>
                 /\ call.name = "retrieve" => cache' = cache
                 /\ \A s \in Skus \ {call.sku} :
                       /\ s \in DOMAIN cache' <=> s \in DOMAIN cache
                       /\ s \in DOMAIN cache => cache'[s] = cache[s]
         ]_vars

\* Both products were cached, the first was invalidated, and a retrieve of
\* the second has returned its record.
C25_Witness ==
    /\ Len(calls["t1"]) = 4
    /\ calls["t1"][1].name = "update" /\ calls["t1"][1].sku = "p"
    /\ calls["t1"][2].name = "update" /\ calls["t1"][2].sku = "q"
    /\ calls["t1"][3] = CacheCall("invalidate", "p", None)
    /\ calls["t1"][4] = CacheCall("retrieve", "q", None)
    /\ result["t1"] = calls["t1"][2].rec
    /\ "p" \notin DOMAIN cache

----------------------------------------------------------------------------
(* C26 *)

\* Thread t takes a step of a find_price request: the request's intake or
\* one of its calls on the cache and the storage.
ReadStep(t) ==
    /\ pc'[t] # pc[t]
    /\ op'[t] = "find_price"

\* C26: the read path is a pure lookup.  No step of find_price / lowest_price
\* changes the history, latest price or lowest price table, and none scans
\* the latest price table: what the storage returns is the lowest price
\* entry as it is stored, also while it is not the minimum of the latest
\* prices.  The only state a read may change is the cache entry of the
\* queried sku.
C26_ReadPathIsPureLookup ==
    /\ [](\A t \in Threads : op[t] = "find_price" => scans[t] = 0)
    /\ [][\A t \in Threads :
             ReadStep(t) =>
                /\ history_table' = history_table
                /\ next_history_table_id' = next_history_table_id
                /\ latest_price_table' = latest_price_table
                /\ lowest_price_table' = lowest_price_table
                /\ \A u \in Threads \ {t} : scans'[u] = scans[u]
                /\ \A sku \in Skus \ {find_sku'[t]} :
                      DictGet(cache', sku) = DictGet(cache, sku)
                /\ pc[t] = "storage_lowest_price" =>
                      result'[t] = DictGet(lowest_price_table, find_sku[t])
         ]_vars

\* A read has returned and cached the stored lowest price entry while a
\* write of the other thread has raised the only latest price of the
\* product above it; the tables are as the write left them.
C26_Witness ==
    /\ op["t2"] = "find_price" /\ pc["t2"] = "return"
    /\ calls["t2"] = <<"retrieve", "lowest_price", "update">>
    /\ Val(result["t2"]).price = 10
    /\ LatestOf("p") # {} /\ MinLatestPrice("p") = 12
    /\ DictGet(cache, "p") = result["t2"]
    /\ lowest_price_table["p"].price = 10
    /\ op["t1"] = "receive" /\ pc["t1"] = "lowest_read"

----------------------------------------------------------------------------
(* C27 *)

\* The operations of the mirrored backend that read or write price data.
MirroredPriceOps ==
    {"Mirrored_lowest_price", "Mirrored_latest_for_retailer",
     "Mirrored_update_price", "Mirrored_schedule_update"}
    \cup {"Mirrored" \o hook : hook \in MirroredHooks}

\* C27: every operation of the mirrored database backend that reads or
\* writes price data (lowest_price, latest_for_retailer, update_price through
\* its hooks, schedule_update) ends with NotImplementedError; none of them
\* returns, so none hands back an empty, None or default result, and none
\* changes a table or the cache.
C27_MirroredSignalsNotImplemented ==
    /\ [](\A t \in Threads :
            op[t] \in MirroredPriceOps =>
                /\ pc[t] \in {"Mirrored_update_history_table", "raised"}
                /\ pc[t] = "raised" => calls[t] = <<"NotImplementedError">>
                /\ IsNone(result[t])
                /\ response[t] = NoResponse)
    /\ [][storage_vars' = storage_vars /\ cache' = cache]_vars

\* update_price of a windowed observation and lowest_price have both ended
\* with NotImplementedError on the mirrored backend.
C27_Witness ==
    /\ op["t1"] = "Mirrored_update_price" /\ pc["t1"] = "raised"
    /\ calls["t1"] = <<"NotImplementedError">>
    /\ Val(api_record["t1"]).fromdate # NoneStr
    /\ op["t2"] = "Mirrored_lowest_price" /\ pc["t2"] = "raised"
    /\ calls["t2"] = <<"NotImplementedError">>
    /\ find_sku["t2"] = "p"

----------------------------------------------------------------------------
(* C28 *)

\* The observation thread t is processing raises the price of the seller
\* that holds the product's lowest price entry: it is not windowed, the
\* product has an entry, the new price is strictly greater than the entry's
\* and the seller is the entry's.
HolderRaises(t) ==
    /\ ~IsNone(api_record[t])
    /\ Val(api_record[t]).fromdate = NoneStr
    /\ Val(api_record[t]).todate = NoneStr
    /\ Val(api_record[t]).sku \in DOMAIN lowest_price_table
    /\ Val(api_record[t]).price >
          lowest_price_table[Val(api_record[t]).sku].price
    /\ Val(api_record[t]).retailer =
          lowest_price_table[Val(api_record[t]).sku].retailer

\* C28: update_price scans the latest price table (_query_lowest_price_point)
\* if and only if the observation is not windowed, the product has a lowest
\* price entry, the new price is strictly greater than the entry's price and
\* the observation's seller is the entry's seller; then it scans once, and
\* on every other path it does not scan.
C28_RescanIffHolderRaises ==
    /\ [](scans["t1"] \in {0, 1})
    /\ [](\A rec \in WindowedObservations :
            (/\ api_record["t1"] = Some(rec)
             /\ (rec.fromdate # NoneStr \/ rec.todate # NoneStr)) =>
                scans["t1"] = 0)
    /\ [][scans'["t1"] > scans["t1"] <=>
             /\ pc["t1"] = "lowest_branch"
             /\ pc'["t1"] # "lowest_branch"
             /\ HolderRaises("t1")
         ]_vars

\* The holder of the lowest price raised its price after a windowed
\* observation had been recorded: update_price scanned once and the entry
\* went to the other seller.
C28_Witness ==
    /\ pc["t1"] = "return" /\ op["t1"] = "update_price"
    /\ scans["t1"] = 1
    /\ Val(api_record["t1"]).retailer = "a"
    /\ "p" \in DOMAIN lowest_price_table
    /\ lowest_price_table["p"].retailer = "b"
    /\ \E id \in DOMAIN history_table : history_table[id].fromdate # NoneStr

----------------------------------------------------------------------------
(* C29 *)

\* The observation thread t is processing is not windowed, costs strictly
\* more than the lowest price entry update_price read for its product, and
\* comes from another seller than that entry's.
OtherSellerHigher(t) ==
    /\ op[t] = "update_price"
    /\ ~IsNone(api_record[t]) /\ ~IsNone(current_entry[t])
    /\ Val(api_record[t]).fromdate = NoneStr
    /\ Val(api_record[t]).todate = NoneStr
    /\ Val(api_record[t]).price > Val(current_entry[t]).price
    /\ Val(api_record[t]).retailer # Val(current_entry[t]).retailer

\* C29: an observation that is not windowed, with a price strictly greater
\* than the lowest price entry's and a seller other than the entry's, writes
\* nothing to the lowest price table: the entry (seller, price, link) is as
\* it was, while the history table has the observation's record and the
\* latest price entry of (product, seller) is the observation.
C29_OtherSellerHigherKeepsEntry ==
    /\ []((Finished("t1") /\ OtherSellerHigher("t1")) =>
            LET rec == Val(api_record["t1"])
            IN  /\ lowest_price_table[rec.sku] = Val(current_entry["t1"])
                /\ history_id["t1"] \in DOMAIN history_table
                /\ history_table[history_id["t1"]] =
                      [id |-> history_id["t1"], sku |-> rec.sku,
                       retailer |-> rec.retailer, price |-> rec.price,
                       fromdate |-> NoneStr, todate |-> NoneStr,
                       url |-> rec.url]
                /\ \E i \in 1..Len(latest_price_table) :
                      latest_price_table[i] = rec)
    /\ [][OtherSellerHigher("t1") =>
             lowest_price_table' = lowest_price_table]_vars

\* Seller "a" holds the lowest price 10 with a link; seller "b" has reported
\* 12 with no link, and update_price has finished without touching the
\* entry.
C29_Witness ==
    /\ Finished("t1") /\ OtherSellerHigher("t1")
    /\ Val(api_record["t1"]) =
          APIRecord("p", "b", 12, NoneStr, NoneStr, NoneStr)
    /\ lowest_price_table["p"].retailer = "a"
    /\ lowest_price_table["p"].price = 10
    /\ lowest_price_table["p"].url # NoneStr
    /\ calls["t1"] = <<"history", "latest", "lowest">>

----------------------------------------------------------------------------
(* C30 *)

\* No update_price is under way: the thread is idle, or its call has
\* finished or raised.
AtRest(t) == pc[t] \in {"idle", "return", "raised"}

\* C30: with observations processed one at a time, between any two of them
\* every lowest price entry is a copy of an existing latest price entry: the
\* latest price entry of (product, recorded seller) exists and has the
\* price and the link of the lowest price entry.
C30_LowestCopiesLatest ==
    AtRest("t1") =>
        \A sku \in DOMAIN lowest_price_table :
            \E i \in 1..Len(latest_price_table) :
                /\ latest_price_table[i].sku = sku
                /\ lowest_price_table[sku].sku = sku
                /\ latest_price_table[i].retailer =
                      lowest_price_table[sku].retailer
                /\ latest_price_table[i].price = lowest_price_table[sku].price
                /\ latest_price_table[i].url = lowest_price_table[sku].url

\* The holder of the lowest price raised its price, the scan found the other
\* seller's entry, and the lowest price entry now carries that entry's
\* price and link.
C30_Witness ==
    /\ Finished("t1") /\ scans["t1"] = 1
    /\ Val(api_record["t1"]).retailer = "a"
    /\ Val(api_record["t1"]).price = 15
    /\ lowest_price_table["p"].retailer = "b"
    /\ lowest_price_table["p"].price = 12
    /\ lowest_price_table["p"].url = "u"
    /\ Cardinality(LatestOf("p")) = 2

----------------------------------------------------------------------------
(* C31 *)

\* C31: history ids stay unique under concurrency.  For every interleaving
\* of concurrent update_price calls no history entry is overwritten (no two
\* records are stored under one id), and once the calls have returned the
\* history table has one entry per processed observation.
C31_HistoryIdsUnique ==
    /\ [](Settled => Cardinality(DOMAIN history_table) = accepted)
    /\ [][\A id \in DOMAIN history_table :
             /\ id \in DOMAIN history_table'
             /\ history_table'[id] = history_table[id]
         ]_vars

----------------------------------------------------------------------------
(* C32 *)

\* C32: each cache entry stored under a sku is a record the storage's
\* lowest_price returned for that sku in the current or an earlier state.
\* Stated step by step: a find_price only ever holds, as its result, the
\* cache entry of its sku or the lowest price entry the storage has for its
\* sku at the step the result is read; a cache entry appears or changes only
\* by cache.update of a find_price for that sku, which stores the result the
\* request holds; so no absent result is written, and every entry is a
\* record of the product it is stored under.
C32_CacheHoldsStorageResults ==
    /\ [](\A sku \in DOMAIN cache : cache[sku].sku = sku)
    /\ [](\A t \in Threads :
            (op[t] = "find_price" /\ ~IsNone(result[t])) =>
                Val(result[t]).sku = find_sku[t])
    /\ [][\A t \in Threads :
             (op'[t] = "find_price" /\ result'[t] # result[t]) =>
                \/ result'[t] = DictGet(cache, find_sku[t])
                \/ result'[t] = DictGet(lowest_price_table, find_sku[t])
         ]_vars
    /\ [][\A sku \in Skus :
             (DictGet(cache', sku) # DictGet(cache, sku)
              /\ sku \in DOMAIN cache') =>
                \E t \in Threads :
                    /\ op[t] = "find_price" /\ pc[t] = "cache_update"
                    /\ find_sku[t] = sku
                    /\ ~IsNone(result[t])
                    /\ cache'[sku] = Val(result[t])
         ]_vars

\* The cache holds for "p" the record lowest_price("p") returned before a
\* concurrent /receive raised the price, and a find_price for "q", which
\* the storage does not know, has been answered 404 with nothing cached.
C32_Witness ==
    /\ "p" \in DOMAIN cache /\ cache["p"].price = 10
    /\ "p" \in DOMAIN lowest_price_table
    /\ lowest_price_table["p"].price = 12
    /\ op["t2"] = "find_price" /\ pc["t2"] = "return"
    /\ find_sku["t2"] = "q"
    /\ calls["t2"] = <<"retrieve", "lowest_price">>
    /\ response["t2"].status = 404
    /\ "q" \notin DOMAIN cache

----------------------------------------------------------------------------
(* C33 *)

\* Thread t scans the latest price table in this step.
Rescans(t) == scans'[t] > scans[t]

====
